---- MODULE Spec2Model ----
(***************************************************************************)
(* IAP (Illocutionary Act Preservation) evaluator of divergence-z:         *)
(* src/divergence_z/iap_evaluator.py.                                      *)
(*                                                                         *)
(* Numbers.  The program computes in floats; the model computes in fixed   *)
(* point.  An intensity is an integer number of hundredths (0.85 is 85),   *)
(* a type/role/entity similarity is in hundredths (0.95 is 95), a force or *)
(* target weight is in tenths (1.3 is 13) and every rate, penalty and the  *)
(* overall score is in thousandths (1.0 is 1000).  Quotients are floored.  *)
(*                                                                         *)
(* Strings.  Python str values are TLA+ strings over ASCII; the model's    *)
(* texts hold no kana or kanji, so the kana branches of the entity code    *)
(* are not entered by any text of the model.                               *)
(***************************************************************************)
EXTENDS Integers, Sequences, FiniteSets, TLC

VARIABLES
    pc,          \* position in score_iap_deterministic / the normalizer / the cache path
    o_acts,      \* original.acts
    t_acts,      \* translated.acts
    o_hdr,       \* original: primary_act, address_mode
    t_hdr,       \* translated: primary_act, address_mode
    match,       \* the matcher's used_o, used_t (index sets) and preserved, the
                 \* sequence of <<i, j, type_similarity>> for (o_acts[i], t_acts[j], score)
    n_pass1,     \* Len(preserved) when pass 1 ended
    result,      \* the IAPResult returned, or the exception raised
    raw,         \* normalizer input: the raw label / role / force text
    norm,        \* normalizer output
    call,        \* the arguments of cached_extract: text, model, lang_hint, context_hint
    rec,         \* the raw record the extraction call parsed from the model output
    cache,       \* JsonlCache._index
    file,        \* the lines of the cache file
    outcome,     \* how a cached_extract call on a stored file ended
    miss_ret,    \* what cached_extract returned on the miss
    hit_ret,     \* what cached_extract returned on the hit
    attempt,     \* extract_acts_llm: the loop variable attempt
    log          \* the calls made so far to the API, time.sleep, extract_acts_llm and set

scoreVars == <<o_acts, t_acts, o_hdr, t_hdr, match, n_pass1, result>>
normVars == <<raw, norm>>
cacheVars == <<call, rec, cache, file, outcome, miss_ret, hit_ret, attempt, log>>
vars == <<pc, scoreVars, normVars, cacheVars>>

(***************************************************************************)
(* Python str operations used by the program                               *)
(***************************************************************************)
LowerAlpha == "abcdefghijklmnopqrstuvwxyz"
UpperAlpha == "ABCDEFGHIJKLMNOPQRSTUVWXYZ"
Digits == "0123456789"

Max2(a, b) == IF a >= b THEN a ELSE b
Min2(a, b) == IF a <= b THEN a ELSE b
Abs(a) == IF a < 0 THEN -a ELSE a

\* c in s, for a one-character c
CharIn(c, s) == \E i \in 1..Len(s) : SubSeq(s, i, i) = c

\* k in s  (Python substring test; the empty string is in every string)
Contains(s, k) == \E i \in 1..(Len(s) - Len(k) + 1) : SubSeq(s, i, i + Len(k) - 1) = k

\* any(kw in s for kw in kws)
AnyIn(kws, s) == \E kw \in kws : Contains(s, kw)

UpperChar(c) ==
    IF CharIn(c, LowerAlpha)
    THEN LET i == CHOOSE k \in 1..26 : SubSeq(LowerAlpha, k, k) = c IN SubSeq(UpperAlpha, i, i)
    ELSE c

LowerChar(c) ==
    IF CharIn(c, UpperAlpha)
    THEN LET i == CHOOSE k \in 1..26 : SubSeq(UpperAlpha, k, k) = c IN SubSeq(LowerAlpha, i, i)
    ELSE c

RECURSIVE StrUpper(_)
\* s.upper()
StrUpper(s) ==
    IF s = "" THEN "" ELSE UpperChar(SubSeq(s, 1, 1)) \o StrUpper(SubSeq(s, 2, Len(s)))

RECURSIVE StrLower(_)
\* s.lower()
StrLower(s) ==
    IF s = "" THEN "" ELSE LowerChar(SubSeq(s, 1, 1)) \o StrLower(SubSeq(s, 2, Len(s)))

RECURSIVE StrStrip(_)
\* s.strip(): the space is the only whitespace of the model's texts
StrStrip(s) ==
    IF s = "" THEN ""
    ELSE IF SubSeq(s, 1, 1) = " " THEN StrStrip(SubSeq(s, 2, Len(s)))
    ELSE IF SubSeq(s, Len(s), Len(s)) = " " THEN StrStrip(SubSeq(s, 1, Len(s) - 1))
    ELSE s

RECURSIVE StrReplace(_, _, _)
\* s.replace(k, r): every non-overlapping occurrence of k, left to right (k non-empty)
StrReplace(s, k, r) ==
    IF Len(s) < Len(k) THEN s
    ELSE IF SubSeq(s, 1, Len(k)) = k THEN r \o StrReplace(SubSeq(s, Len(k) + 1, Len(s)), k, r)
    ELSE SubSeq(s, 1, 1) \o StrReplace(SubSeq(s, 2, Len(s)), k, r)

(***************************************************************************)
(* Label normalizer                                                        *)
(***************************************************************************)
CANONICAL_ACT_TYPES ==
    {"ASSERT", "ASSERT_CHOICE", "CLOSE_ESCAPE", "EXPRESS", "DIRECT", "COMMIT", "DENY",
     "DENY_ASSUMPTION", "ULTIMATUM", "REQUEST", "COMMAND", "VOW", "DECLARE"}

TARGET_TYPES == {"SELF", "LISTENER", "THIRD_PARTY", "SITUATION", "PROPOSITION", "ABSTRACT"}

exact_mapping ==
    [k \in {"ASSERTION", "DECLARE", "STATEMENT", "STATE", "DESCRIBE", "CLAIM"} |-> "ASSERT"]
    @@ [k \in {"PROMISE", "VOW", "PLEDGE"} |-> "COMMIT"]
    @@ [k \in {"CHOICE"} |-> "ASSERT_CHOICE"]
    @@ [k \in {"EXPRESSION", "EMOTION", "EMOTE", "EXPRESSIVE"} |-> "EXPRESS"]
    @@ [k \in {"ORDER"} |-> "COMMAND"]
    @@ [k \in {"DIRECTIVE", "PRESSURE"} |-> "DIRECT"]
    @@ [k \in {"DENIAL", "REJECTION", "REJECT", "REFUSE"} |-> "DENY"]
    @@ [k \in {"BLOCK", "SHUTDOWN", "EXCLUDE"} |-> "CLOSE_ESCAPE"]

\* the labels line 159 passes through (DECLARE is not among them)
PassThroughTypes ==
    {"ASSERT", "ASSERT_CHOICE", "CLOSE_ESCAPE", "EXPRESS", "DIRECT", "COMMIT", "DENY",
     "DENY_ASSUMPTION", "ULTIMATUM", "REQUEST", "COMMAND", "VOW"}

\* the keyword cascade of lines 163-212, in order: <<keywords, result>>
TypeCascade ==
    << <<{"confess", "love", "like", "desire", "want", "feel", "emotion", "express",
          "romantic", "affection"}, "EXPRESS">>,
       <<{"choice", "choose", "select", "prefer", "preference", "exclusive", "specific",
          "only"}, "ASSERT_CHOICE">>,
       <<{"refuse", "reject", "alternative", "escape", "block", "exclude", "close", "shut",
          "eliminate"}, "CLOSE_ESCAPE">>,
       <<{"deny", "negat", "reject", "refus"}, "DENY">>,
       <<{"assumption", "presuppos", "correct", "wrong"}, "DENY_ASSUMPTION">>,
       <<{"commit", "promise", "vow", "pledge", "resolve", "will_not", "won't", "swear"},
         "COMMIT">>,
       <<{"direct", "pressure", "demand", "urge", "push"}, "DIRECT">>,
       <<{"request", "ask", "beg", "plead"}, "REQUEST">>,
       <<{"command", "order", "instruct"}, "COMMAND">>,
       <<{"ultimatum", "condition", "if_not", "or_else"}, "ULTIMATUM">>,
       <<{"assert", "state", "claim", "declar", "insist"}, "ASSERT">> >>

\* the first rule of an ordered <<keywords, result>> cascade whose keyword occurs in s, else dflt
FirstRule(cascade, s, dflt) ==
    IF \A i \in 1..Len(cascade) : ~AnyIn(cascade[i][1], s) THEN dflt
    ELSE cascade[CHOOSE i \in 1..Len(cascade) :
                    /\ AnyIn(cascade[i][1], s)
                    /\ \A j \in 1..(i - 1) : ~AnyIn(cascade[j][1], s)][2]

\* the cleaned key of lines 124-125 (and 288-289)
LabelKey(t) == StrReplace(StrReplace(StrUpper(StrStrip(t)), " ", "_"), "-", "_")

\* a normalizer without the keyword cascade and its fallback: an unknown label is kept
KeepUnknownKey(u) == IF u \in DOMAIN exact_mapping THEN exact_mapping[u] ELSE u

\* a normalizer that returns every label of CANONICAL_ACT_TYPES unchanged
CanonicalFirst(k) == IF k \in CANONICAL_ACT_TYPES THEN k ELSE "ASSERT"

\* lines 155-215 on the cleaned key u
NormalizeTypeKey(u) ==
    IF u \in DOMAIN exact_mapping THEN exact_mapping[u]
    ELSE IF u \in PassThroughTypes THEN u
    ELSE FirstRule(TypeCascade, StrLower(u), "ASSERT")

_normalize_act_type(t) == NormalizeTypeKey(LabelKey(t))

close_escape_patterns ==
    {"close", "block", "reject", "refuse", "unacceptable", "won't have", "won't accept",
     "can't accept", "cannot accept", "no one else", "nothing else", "not acceptable",
     "alternative", "other option", "other choice", "eliminate", "exclude", "shut"}

assert_choice_patterns ==
    {"only", "exclusive", "the one", "no other", "sole", "must be", "has to be", "none but",
     "just you", "specific", "particular choice", "selected", "acceptable", "desired",
     "preferred"}

express_patterns ==
    {"want", "desire", "like", "love", "prefer", "feeling", "emotion", "affection",
     "longing", "attracted", "fond of", "care for"}

deny_assumption_patterns ==
    {"assumption", "presupposition", "implied", "mistaken", "wrong", "incorrect", "not true",
     "misunderstand"}

\* the commit cues without "promise"
NoPromiseCue == {"will always", "will never", "vow", "swear", "commit", "pledge", "resolve"}

commit_patterns ==
    {"will always", "will never", "promise", "vow", "swear", "commit", "pledge", "resolve"}

\* a promotion that tries the exclusivity cues before the exclusion cues
ChoiceFirst(act_type, combined) ==
    IF AnyIn(assert_choice_patterns, combined) THEN "ASSERT_CHOICE"
    ELSE IF AnyIn(close_escape_patterns, combined) THEN "CLOSE_ESCAPE"
    ELSE IF AnyIn(express_patterns, combined) THEN "EXPRESS"
    ELSE IF AnyIn(deny_assumption_patterns, combined) THEN "DENY_ASSUMPTION"
    ELSE IF AnyIn(commit_patterns, combined) THEN "COMMIT"
    ELSE act_type

\* lines 232-283 on the combined text
PromoteByCues(act_type, combined) ==
    IF AnyIn(close_escape_patterns, combined) THEN "CLOSE_ESCAPE"
    ELSE IF AnyIn(assert_choice_patterns, combined)
            /\ ~AnyIn({"reject", "refuse", "close", "block"}, combined)
         THEN "ASSERT_CHOICE"
    ELSE IF AnyIn(express_patterns, combined) THEN "EXPRESS"
    ELSE IF AnyIn(deny_assumption_patterns, combined) THEN "DENY_ASSUMPTION"
    ELSE IF AnyIn(commit_patterns, combined) THEN "COMMIT"
    ELSE act_type

_promote_assert_by_force(act_type, force, target_entity) ==
    IF act_type # "ASSERT" THEN act_type
    ELSE PromoteByCues(act_type, StrLower(force) \o " " \o StrLower(target_entity))

(***************************************************************************)
(* Role normalizer                                                         *)
(***************************************************************************)
role_mapping ==
    [k \in {"SPEAKER", "MYSELF"} |-> "SELF"]
    @@ [k \in {"ADDRESSEE", "HEARER", "AUDIENCE"} |-> "LISTENER"]
    @@ [k \in {"OTHER", "OTHERS", "SOMEONE"} |-> "THIRD_PARTY"]
    @@ [k \in {"CONDITION", "EVENT", "CIRCUMSTANCE", "STATE", "RESULT"} |-> "SITUATION"]
    @@ [k \in {"CONCEPT", "IDEA", "VALUE", "IDEAL"} |-> "ABSTRACT"]
    @@ [k \in {"TRUTH", "ASSUMPTION", "PREMISE"} |-> "PROPOSITION"]

RoleCascade ==
    << <<{"self", "speaker", "myself", "own"}, "SELF">>,
       <<{"listen", "address", "you", "hearer"}, "LISTENER">>,
       <<{"third", "other", "someone", "person"}, "THIRD_PARTY">>,
       <<{"situation", "condition", "event", "circumstance", "state", "result"},
         "SITUATION">>,
       <<{"proposition", "assumption", "premise", "claim", "that"}, "PROPOSITION">>,
       <<{"abstract", "value", "ideal", "meaning", "freedom", "justice", "concept"},
         "ABSTRACT">> >>

\* lines 292-337 on the cleaned key u
NormalizeRoleKey(u) ==
    IF u \in TARGET_TYPES THEN u
    ELSE IF u \in DOMAIN role_mapping THEN role_mapping[u]
    ELSE FirstRule(RoleCascade, StrLower(u), "LISTENER")

_normalize_target_type(t) == NormalizeRoleKey(LabelKey(t))

(***************************************************************************)
(* The acts the scorer is run on                                           *)
(***************************************************************************)
Act(ty, role, entity, force, intensity) ==
    [act_type |-> ty, target_role |-> role, target_entity |-> entity, force |-> force,
     intensity |-> intensity]

\* normalized acts as the extraction path hands them over; it does not clamp
\* intensity, so -0.3 and 1.5 reach the scorer as they are
ActPool ==
    { Act("ASSERT", "LISTENER", "Rem", "states a fact", 50),
      Act("ASSERT_CHOICE", "THIRD_PARTY", "-san", "only you", 150),
      Act("CLOSE_ESCAPE", "SITUATION", "", "closes off alternatives", 80),
      Act("COMMAND", "LISTENER", "you", "orders", -30) }

(***************************************************************************)
(* Entity canonicalizer and entity similarity                              *)
(***************************************************************************)
RECURSIVE StrFilter(_, _)
\* the characters of s that occur in keep, in order (re.sub of a negated class)
StrFilter(s, keep) ==
    IF s = "" THEN ""
    ELSE (IF CharIn(SubSeq(s, 1, 1), keep) THEN SubSeq(s, 1, 1) ELSE "")
         \o StrFilter(SubSeq(s, 2, Len(s)), keep)

RECURSIVE RemoveAll(_, _)
\* for suffix in ks: e = e.replace(suffix, "")
RemoveAll(e, ks) == IF ks = <<>> THEN e ELSE RemoveAll(StrReplace(e, Head(ks), ""), Tail(ks))

\* the ASCII honorifics of line 471, in order (the kana ones precede them)
HonorificSuffixes == <<"-kun", "-san", "-chan", "-senpai", "-sensei", "-sama">>

_normalize_entity(entity) ==
    StrFilter(RemoveAll(StrLower(StrStrip(entity)), HonorificSuffixes),
              LowerAlpha \o UpperAlpha \o Digits \o "_")

RECURSIVE CollapseRuns(_)
\* re.sub(r'(.)\1+', r'\1', e)
CollapseRuns(e) ==
    IF Len(e) < 2 THEN e
    ELSE IF SubSeq(e, 1, 1) = SubSeq(e, 2, 2) THEN CollapseRuns(SubSeq(e, 2, Len(e)))
    ELSE SubSeq(e, 1, 1) \o CollapseRuns(SubSeq(e, 2, Len(e)))

_canonicalize_entity(entity) ==
    CollapseRuns(StrReplace(StrFilter(StrLower(_normalize_entity(entity)),
                                      LowerAlpha \o Digits), "l", "r"))

RECURSIVE _strip_trailing_vowels(_)
_strip_trailing_vowels(s) ==
    IF s # "" /\ CharIn(SubSeq(s, Len(s), Len(s)), "aiueo")
    THEN _strip_trailing_vowels(SubSeq(s, 1, Len(s) - 1))
    ELSE s

equiv_entities ==
    << {"listener", "addressee", "you", "hearer", "anata"},
       {"speaker", "self", "myself", "i", "watashi", "boku", "ore"},
       {"alternatives", "others", "anyone", "other", "else", "hoka", "betsu"},
       {"everyone", "all", "minna", "mina"} >>

\* lines 637-644: some run of 3 or more characters of orig_canon occurs in trans_canon
SharedRun(orig_canon, trans_canon) ==
    \E length \in 3..Min2(Len(orig_canon), Len(trans_canon)) :
        \E i \in 1..(Len(orig_canon) - length + 1) :
            Contains(trans_canon, SubSeq(orig_canon, i, i + length - 1))

\* the cascade of lines 613-660 on the canonical strings and their vowel-stripped forms
EntityCascade(orig_canon, trans_canon, orig_stripped, trans_stripped) ==
    IF orig_canon = trans_canon THEN 100
    ELSE IF orig_stripped # "" /\ trans_stripped # "" /\ orig_stripped = trans_stripped
         THEN 95
    ELSE IF Contains(trans_canon, orig_canon) \/ Contains(orig_canon, trans_canon)
         THEN 90
    ELSE IF orig_stripped # "" /\ trans_stripped # ""
            /\ (Contains(trans_stripped, orig_stripped)
                \/ Contains(orig_stripped, trans_stripped))
         THEN 88
    ELSE IF Min2(Len(orig_canon), Len(trans_canon)) >= 3
            /\ SubSeq(orig_canon, 1, 3) = SubSeq(trans_canon, 1, 3)
         THEN 85
    ELSE IF Len(orig_canon) > 6 /\ Len(trans_canon) > 6
            /\ SharedRun(orig_canon, trans_canon)
         THEN 80
    ELSE IF \E k \in 1..Len(equiv_entities) :
                AnyIn(equiv_entities[k], orig_canon) /\ AnyIn(equiv_entities[k], trans_canon)
         THEN 75
    ELSE 30

\* an entity comparison that answers the neutral 0.5 for every pair
AlwaysNeutral(orig_canon, trans_canon) == 50

\* a comparison that is neutral only when both canonical strings are empty
BothEmptyNeutral(orig_canon, trans_canon) ==
    IF orig_canon = "" /\ trans_canon = "" THEN 50
    ELSE EntityCascade(orig_canon, trans_canon,
                       _strip_trailing_vowels(orig_canon), _strip_trailing_vowels(trans_canon))

\* lines 610-660 on the two canonical strings (hundredths)
EntityCanonScore(orig_canon, trans_canon) ==
    IF orig_canon = "" \/ trans_canon = "" THEN 50
    ELSE EntityCascade(orig_canon, trans_canon,
                       _strip_trailing_vowels(orig_canon), _strip_trailing_vowels(trans_canon))

\* hundredths
_entity_match_score(orig_entity, trans_entity) ==
    EntityCanonScore(_canonicalize_entity(orig_entity), _canonicalize_entity(trans_entity))

(***************************************************************************)
(* Role distance and target similarity                                     *)
(***************************************************************************)
abstract_set == {"SITUATION", "PROPOSITION", "ABSTRACT"}
concrete_set == {"SELF", "LISTENER", "THIRD_PARTY"}

\* hundredths
_target_role_distance_default(orig_role, trans_role) ==
    IF orig_role = trans_role THEN 100
    ELSE IF {orig_role, trans_role} = {"LISTENER", "THIRD_PARTY"} THEN 85
    ELSE IF {orig_role, trans_role} = {"SELF", "LISTENER"} THEN 70
    ELSE IF {orig_role, trans_role} = {"SELF", "THIRD_PARTY"} THEN 50
    ELSE IF orig_role \in abstract_set /\ trans_role \in abstract_set THEN 80
    ELSE IF (orig_role \in concrete_set /\ trans_role \in abstract_set)
            \/ (orig_role \in abstract_set /\ trans_role \in concrete_set)
         THEN 30
    ELSE 40

\* ACT_TARGET_ROLE_COMPAT[act_type].get((orig_role, trans_role)); 0 when the pair is absent
ACT_TARGET_ROLE_COMPAT(act_type, orig_role, trans_role) ==
    LET p == {orig_role, trans_role}
        two == orig_role # trans_role
    IN  IF act_type = "CLOSE_ESCAPE" /\ two
        THEN IF p = {"LISTENER", "SITUATION"} \/ p = {"LISTENER", "PROPOSITION"} THEN 90
             ELSE IF p = {"SITUATION", "PROPOSITION"} THEN 95
             ELSE IF p = {"THIRD_PARTY", "SITUATION"} \/ p = {"THIRD_PARTY", "PROPOSITION"}
                  THEN 85
             ELSE 0
        ELSE IF act_type = "ULTIMATUM" /\ two
        THEN IF p = {"LISTENER", "SITUATION"} THEN 85
             ELSE IF p = {"LISTENER", "PROPOSITION"} THEN 80
             ELSE 0
        ELSE IF act_type = "DENY_ASSUMPTION" /\ two
        THEN IF p = {"PROPOSITION", "SITUATION"} THEN 90
             ELSE IF p = {"PROPOSITION", "LISTENER"} THEN 75
             ELSE 0
        ELSE 0

\* hundredths; compat is the entry of the act's compatibility matrix, 0 for none
RoleDistance(orig_role, trans_role, compat) ==
    IF orig_role = trans_role THEN 100
    ELSE IF compat # 0 THEN compat
    ELSE _target_role_distance_default(orig_role, trans_role)

\* hundredths
_target_role_distance(orig_role, trans_role, act_type) ==
    RoleDistance(orig_role, trans_role, ACT_TARGET_ROLE_COMPAT(act_type, orig_role, trans_role))

\* _entity_match_score on the entities of ActPool, computed once
PoolEntities == {a.target_entity : a \in ActPool}
EntityScoreTable == [oe \in PoolEntities, te \in PoolEntities |-> _entity_match_score(oe, te)]

\* _entity_match_score(oe, te), read from EntityScoreTable for entities of ActPool
EntityScore(oe, te) ==
    IF oe \in PoolEntities /\ te \in PoolEntities
    THEN EntityScoreTable[oe, te]
    ELSE _entity_match_score(oe, te)

\* 0.6 * role_score + 0.4 * entity_score, in thousandths
_target_match_score(orig_role, orig_entity, trans_role, trans_entity, act_type) ==
    6 * _target_role_distance(orig_role, trans_role, act_type)
    + 4 * EntityScore(orig_entity, trans_entity)

(***************************************************************************)
(* Type-equivalence score                                                  *)
(***************************************************************************)
EQUIV_CLASSES ==
    << {"ASSERT", "DENY_ASSUMPTION"},
       {"DIRECT", "REQUEST", "COMMAND"},
       {"EXPRESS"},
       {"ASSERT_CHOICE", "COMMIT", "VOW"},
       {"CLOSE_ESCAPE", "DENY"},
       {"ULTIMATUM"} >>

\* the close_pairs list of lines 682-693, in order (hundredths)
close_pairs ==
    << <<{"ASSERT", "ASSERT_CHOICE"}, 75>>,
       <<{"ASSERT", "CLOSE_ESCAPE"}, 70>>,
       <<{"ASSERT", "EXPRESS"}, 60>>,
       <<{"REQUEST", "DIRECT"}, 70>>,
       <<{"DENY", "DENY_ASSUMPTION"}, 75>>,
       <<{"CLOSE_ESCAPE", "DENY"}, 70>>,
       <<{"COMMIT", "VOW"}, 90>>,
       <<{"ASSERT_CHOICE", "CLOSE_ESCAPE"}, 65>>,
       <<{"ULTIMATUM", "COMMIT"}, 60>>,
       <<{"EXPRESS", "ASSERT_CHOICE"}, 50>> >>

\* _normalize_act_type on the 13 canonical labels, computed once
NormTypeTable == [t \in CANONICAL_ACT_TYPES |-> _normalize_act_type(t)]

\* _normalize_act_type(t), read from NormTypeTable when t is a canonical label
NormType(t) == IF t \in CANONICAL_ACT_TYPES THEN NormTypeTable[t] ELSE _normalize_act_type(t)

\* a score that takes ASSERT as the generic label on the original side only
GenericOriginal(a, b) == IF a = b THEN 100 ELSE IF a = "ASSERT" THEN 60 ELSE 0

\* lines 673-697 on the two normalized labels (hundredths)
EquivNormalized(a, b) ==
    IF a = "" \/ b = "" THEN 0
    ELSE IF a = b THEN 100
    ELSE IF \E k \in 1..Len(EQUIV_CLASSES) : a \in EQUIV_CLASSES[k] /\ b \in EQUIV_CLASSES[k]
         THEN 80
    ELSE IF \E k \in 1..Len(close_pairs) : a \in close_pairs[k][1] /\ b \in close_pairs[k][1]
         THEN close_pairs[CHOOSE k \in 1..Len(close_pairs) :
                            /\ a \in close_pairs[k][1] /\ b \in close_pairs[k][1]
                            /\ \A m \in 1..(k - 1) :
                                  ~(a \in close_pairs[m][1] /\ b \in close_pairs[m][1])][2]
    ELSE 0

\* hundredths
_equiv_score(a0, b0) == EquivNormalized(NormType(a0), NormType(b0))

\* thousandths
_clip01(x) == Max2(0, Min2(1000, x))

(***************************************************************************)
(* Scoring tables                                                          *)
(***************************************************************************)
CRITICAL_INTENSITY == 80

CRITICAL_ACT_TYPES == {"CLOSE_ESCAPE", "ULTIMATUM", "DECLARE", "DENY_ASSUMPTION", "COMMIT"}
CRITICAL_LOSS_PENALTY == 200
CRITICAL_LOSS_PENALTY_CAP == 400

TARGET_WEIGHT_DEFAULT == 10

\* TARGET_WEIGHTED_ACT_TYPES.get(act_type, TARGET_WEIGHT_DEFAULT), in tenths
TARGET_WEIGHTED_ACT_TYPES(act_type) ==
    IF act_type \in {"CLOSE_ESCAPE", "ULTIMATUM"} THEN 20
    ELSE IF act_type \in {"DIRECT", "DECLARE"} THEN 15
    ELSE IF act_type \in {"DENY", "DENY_ASSUMPTION"} THEN 13
    ELSE IF act_type \in {"COMMIT", "VOW"} THEN 12
    ELSE TARGET_WEIGHT_DEFAULT

FORCE_WEIGHT_DEFAULT == 10
FORCE_WEIGHT_MAX == 20

\* FORCE_WEIGHTS.get(act_type, FORCE_WEIGHT_DEFAULT), in tenths
FORCE_WEIGHTS(act_type) ==
    IF act_type \in {"EXPRESS", "ASSERT"} THEN 10
    ELSE IF act_type = "ASSERT_CHOICE" THEN 13
    ELSE IF act_type \in {"DENY", "DENY_ASSUMPTION", "DIRECT", "REQUEST", "COMMAND"} THEN 12
    ELSE IF act_type \in {"COMMIT", "VOW"} THEN 14
    ELSE IF act_type = "CLOSE_ESCAPE" THEN 15
    ELSE IF act_type = "DECLARE" THEN 16
    ELSE IF act_type = "ULTIMATUM" THEN 18
    ELSE FORCE_WEIGHT_DEFAULT

\* tenths
_get_force_weight(act_type) == Min2(FORCE_WEIGHTS(act_type), FORCE_WEIGHT_MAX)

\* x ** GATE_GAMMA (GATE_GAMMA = 0.7) tabulated: entry k + 1 is (k / 100) ** 0.7 in
\* thousandths, rounded
GateTable ==
    <<
       0, 40, 65, 86, 105, 123, 140, 155, 171, 185,
       200, 213, 227, 240, 253, 265, 277, 289, 301, 313,
       324, 335, 346, 357, 368, 379, 389, 400, 410, 420,
       431, 441, 450, 460, 470, 480, 489, 499, 508, 517,
       527, 536, 545, 554, 563, 572, 581, 589, 598, 607,
       616, 624, 633, 641, 650, 658, 666, 675, 683, 691,
       699, 708, 716, 724, 732, 740, 748, 756, 763, 771,
       779, 787, 795, 802, 810, 818, 825, 833, 840, 848,
       855, 863, 870, 878, 885, 892, 900, 907, 914, 922,
       929, 936, 943, 950, 958, 965, 972, 979, 986, 993,
       1000 >>

\* min(...) ** GATE_GAMMA for a base in 0..1000 (thousandths in, thousandths out)
GatePow(x) == GateTable[(x \div 10) + 1]

\* a table that charges every mode change the same 0.10
FlatModePenalty(o_mode, t_mode) == IF o_mode = t_mode THEN 0 ELSE 100

\* ADDRESS_MODE_PENALTY_MAP.get((original, translated), 0.0), in thousandths
ADDRESS_MODE_PENALTY_MAP(o_mode, t_mode) ==
    IF <<o_mode, t_mode>> = <<"direct", "reported">> THEN 350
    ELSE IF <<o_mode, t_mode>> = <<"direct", "monologue">> THEN 200
    ELSE IF <<o_mode, t_mode>> = <<"reported", "direct">> THEN 100
    ELSE IF <<o_mode, t_mode>> = <<"reported", "monologue">> THEN 100
    ELSE IF <<o_mode, t_mode>> = <<"monologue", "direct">> THEN 100
    ELSE IF <<o_mode, t_mode>> = <<"monologue", "reported">> THEN 150
    ELSE 0

(***************************************************************************)
(* Act-set matcher: the two passes of score_iap_deterministic              *)
(***************************************************************************)
\* a matcher that never marks an index as used
NeverAdd(S, x) == S

\* used_o.add(i), used_t.add(best_j)
SetAdd(S, x) == S \cup {x}

\* a pass 1 that accepts any positive score, as pass 2 does: a single best-effort pass
AnyPositive(s) == s > 0

\* a first pass that takes no pair
NeverPass1(s) == FALSE

\* the acceptance test of pass 1 (line 1292) before "s > best_score"
Pass1Threshold(s) == s >= 95

\* an inner loop that applies the pass 1 threshold in both passes
ThresholdInBothPasses(p, j, sc, best) ==
    IF Pass1Threshold(sc) /\ sc > best[2] THEN <<j, sc>> ELSE best

\* one turn of the inner loop: the best candidate <<best_j, best_score>> after t_acts[j]
\* with score sc has been looked at (best_j = 0 is None)
Better(p, j, sc, best) ==
    IF (p = 1 => Pass1Threshold(sc)) /\ sc > best[2] THEN <<j, sc>> ELSE best

RECURSIVE ScanT(_, _, _, _, _, _)
\* the inner loop over t_acts from index j on
ScanT(p, oa, T, ut, j, best) ==
    IF j > Len(T) THEN best
    ELSE IF j \in ut THEN ScanT(p, oa, T, ut, j + 1, best)
    ELSE ScanT(p, oa, T, ut, j + 1, Better(p, j, _equiv_score(oa.act_type, T[j].act_type), best))

\* lines 1295-1299 and 1314-1318: commit the pair <<i, b[1]>> found for o_acts[i], if any
Commit(p, i, m, b) ==
    IF b[1] # 0 /\ (p = 2 => b[2] > 0)
    THEN [used_o |-> SetAdd(m.used_o, i),
          used_t |-> SetAdd(m.used_t, b[1]),
          preserved |-> Append(m.preserved, <<i, b[1], b[2]>>)]
    ELSE m

RECURSIVE PassLoop(_, _, _, _, _)
\* the outer loop of pass p over o_acts from index i on; m holds used_o, used_t, preserved
PassLoop(p, O, T, i, m) ==
    IF i > Len(O) THEN m
    ELSE IF i \in m.used_o THEN PassLoop(p, O, T, i + 1, m)
    ELSE PassLoop(p, O, T, i + 1, Commit(p, i, m, ScanT(p, O[i], T, m.used_t, 1, <<0, 0>>)))

(***************************************************************************)
(* Aggregate scorer: the rest of score_iap_deterministic                   *)
(***************************************************************************)
RECURSIVE SumSeq(_)
SumSeq(q) == IF q = <<>> THEN 0 ELSE Head(q) + SumSeq(Tail(q))

RECURSIVE UnusedFrom(_, _, _)
\* [x for i, x in enumerate(acts) if i not in used], as indices in list order, from i on
UnusedFrom(i, n, used) ==
    IF i > n THEN <<>>
    ELSE (IF i \in used THEN <<>> ELSE <<i>>) \o UnusedFrom(i + 1, n, used)

\* a list of every index, matched or not
EveryIndex(n, used) == [k \in 1..n |-> k]

\* lost (added): the indices of the unmatched acts, in list order
Unused(n, used) == UnusedFrom(1, n, used)

\* len(preserved) / len(o_acts), 1.0 for no original act (thousandths)
IapSet(O, pres) == IF O # <<>> THEN (Len(pres) * 1000) \div Len(O) ELSE 1000

\* _get_force_weight(a.act_type) * a.intensity  (scale 1000)
ForceWeighted(a) == _get_force_weight(a.act_type) * a.intensity

\* 1.0 - abs(orig_weight - trans_weight) / max(orig_weight, trans_weight, 0.01)
WeightMatch(ow, tw) == 1000 - ((Abs(ow - tw) * 1000) \div Max2(Max2(ow, tw), 10))

\* orig_weight * type_match * _clip01(weight_match)  (scale 10^8)
PreservedTerm(orig_weight, trans_weight, type_match) ==
    orig_weight * type_match * _clip01(WeightMatch(orig_weight, trans_weight))

\* preserved_weight (scale 10^8)
PreservedWeight(O, T, pres) ==
    SumSeq([k \in 1..Len(pres) |->
            PreservedTerm(ForceWeighted(O[pres[k][1]]), ForceWeighted(T[pres[k][2]]),
                          pres[k][3])])

\* iap_force before clipping (thousandths); negative when preserved_weight is
ForceRatio(preserved_weight, total_orig_weight) ==
    IF total_orig_weight > 0 THEN preserved_weight \div (total_orig_weight * 100) ELSE 1000

IapForce(O, T, pres) ==
    IF O # <<>>
    THEN ForceRatio(PreservedWeight(O, T, pres),
                    SumSeq([k \in 1..Len(O) |-> ForceWeighted(O[k])]))
    ELSE 1000

\* iap_target (thousandths)
TargetRatio(target_weighted_sum, target_weight_total) ==
    IF target_weight_total > 0 THEN target_weighted_sum \div target_weight_total ELSE 0

\* score * weight for one matched pair (oa, ta)
TargetTerm(oa, ta) ==
    _target_match_score(oa.target_role, oa.target_entity, ta.target_role, ta.target_entity,
                        oa.act_type)
    * TARGET_WEIGHTED_ACT_TYPES(oa.act_type)

IapTarget(O, T, pres) ==
    IF pres # <<>>
    THEN TargetRatio(
             SumSeq([k \in 1..Len(pres) |-> TargetTerm(O[pres[k][1]], T[pres[k][2]])]),
             SumSeq([k \in 1..Len(pres) |-> TARGET_WEIGHTED_ACT_TYPES(O[pres[k][1]].act_type)]))
    ELSE 0

\* a scorer that counts every lost act as critical
AllLost(O, uo) == Unused(Len(O), uo)

\* critical_lost_acts: the lost indices whose type is critical
CriticalLost(O, uo) ==
    LET IsCritical(i) == O[i].act_type \in CRITICAL_ACT_TYPES
    IN  SelectSeq(Unused(Len(O), uo), IsCritical)

\* a scorer that charges nothing for a lost critical act
NoLossPenalty(O, uo) == 0

CriticalLossPenalty(O, uo) ==
    Min2(Len(CriticalLost(O, uo)) * CRITICAL_LOSS_PENALTY, CRITICAL_LOSS_PENALTY_CAP)

\* intensity_match before clipping (thousandths)
IntensityMatch(O, T, pres) ==
    IF pres # <<>>
    THEN 1000 - ((SumSeq([k \in 1..Len(pres) |->
                          Abs(O[pres[k][1]].intensity - T[pres[k][2]].intensity)]) * 10)
                 \div Len(pres))
    ELSE 0

PrimaryPreserved(O, T, pres, o_primary, t_primary) ==
    \/ \E k \in 1..Len(pres) :
          /\ _equiv_score(o_primary, O[pres[k][1]].act_type) > 0
          /\ _equiv_score(o_primary, T[pres[k][2]].act_type) > 0
    \/ _equiv_score(o_primary, t_primary) > 0

\* a high_preserved without the fallback: the high-intensity act itself must be matched
OnlyItself(O, pres) ==
    \A h \in {i \in 1..Len(O) : O[i].intensity >= CRITICAL_INTENSITY} :
        \E k \in 1..Len(pres) : pres[k][1] = h

\* lines 1392-1399; "oa is ha" is identity of the list element, here equality of index
HighPreserved(O, pres) ==
    \A h \in {i \in 1..Len(O) : O[i].intensity >= CRITICAL_INTENSITY} :
        \/ \E k \in 1..Len(pres) :
              pres[k][1] = h /\ _equiv_score(O[h].act_type, O[pres[k][1]].act_type) > 0
        \/ \E k \in 1..Len(pres) : _equiv_score(O[h].act_type, O[pres[k][1]].act_type) > 0

\* an overall that leaves the address-mode penalty out
IgnoreModePenalty(iap_set, iap_force, iap_target, critical_loss_penalty, address_mode_penalty) ==
    _clip01((((40 * iap_set + 35 * iap_force + 25 * iap_target) \div 100)
             * GatePow(Min2(iap_set, Min2(iap_force, iap_target)))) \div 1000
            - critical_loss_penalty)

\* lines 1428-1432: base * gate - penalties, clipped (thousandths)
Overall(iap_set, iap_force, iap_target, critical_loss_penalty, address_mode_penalty) ==
    _clip01((((40 * iap_set + 35 * iap_force + 25 * iap_target) \div 100)
             * GatePow(Min2(iap_set, Min2(iap_force, iap_target)))) \div 1000
            - critical_loss_penalty - address_mode_penalty)

\* lines 1424-1450 on the three rates: the IAPResult, or the TypeError that _clip01 raises
\* on the complex number that a negative base ** GATE_GAMMA is
Finish(O, T, oh, th, m, iap_set, iap_force, iap_target, loss_penalty, mode_penalty) ==
    IF Min2(iap_set, Min2(iap_force, iap_target)) < 0
    THEN [status |-> "raised", exc |-> "TypeError"]
    ELSE [status |-> "returned",
          overall |-> Overall(iap_set, iap_force, iap_target, loss_penalty, mode_penalty),
          iap_set |-> _clip01(iap_set),
          iap_force |-> _clip01(iap_force),
          iap_target |-> _clip01(iap_target),
          intensity_match |-> _clip01(IntensityMatch(O, T, m.preserved)),
          no_critical_loss |->
              (PrimaryPreserved(O, T, m.preserved, oh.primary_act, th.primary_act)
               /\ HighPreserved(O, m.preserved)
               /\ Len(CriticalLost(O, m.used_o)) = 0),
          critical_loss_penalty |-> loss_penalty,
          lost |-> Unused(Len(O), m.used_o),
          added |-> Unused(Len(T), m.used_t),
          address_mode_match |-> (oh.address_mode = th.address_mode),
          address_mode_penalty |-> mode_penalty]

\* lines 1320-1450
ScoreTail(O, T, oh, th, m) ==
    Finish(O, T, oh, th, m,
           IapSet(O, m.preserved), IapForce(O, T, m.preserved), IapTarget(O, T, m.preserved),
           CriticalLossPenalty(O, m.used_o),
           ADDRESS_MODE_PENALTY_MAP(oh.address_mode, th.address_mode))

(***************************************************************************)
(* Act.from_dict, the normalization loop of the extraction and cache paths *)
(***************************************************************************)
\* d.get(k, dflt) on a dict with string keys
DictGet(d, k, dflt) == IF k \in DOMAIN d THEN d[k] ELSE dflt

\* d.get(a) or d.get(b, dflt): a missing or empty first value falls through
GetOr(d, a, b, dflt) == IF a \in DOMAIN d /\ d[a] # "" THEN d[a] ELSE DictGet(d, b, dflt)

\* Act.from_dict (str() and float() of a str and a number are the value itself)
from_dict(d) ==
    Act(DictGet(d, "type", ""),
        GetOr(d, "target_role", "target_type", "LISTENER"),
        GetOr(d, "target_entity", "target", ""),
        DictGet(d, "force", ""),
        DictGet(d, "intensity", 0))

\* s.split()[-1] if s.split() else s
RECURSIVE AfterLastSpace(_, _)
\* the part of t after its last space, scanning back from position i
AfterLastSpace(t, i) ==
    IF i = 0 THEN t
    ELSE IF SubSeq(t, i, i) = " " THEN SubSeq(t, i + 1, Len(t))
    ELSE AfterLastSpace(t, i - 1)

LastToken(s) ==
    IF StrStrip(s) = "" THEN s ELSE AfterLastSpace(StrStrip(s), Len(StrStrip(s)))

\* s.find(k) for a k that occurs in s (0-based)
StrFind(s, k) ==
    (CHOOSE i \in 1..Len(s) :
        /\ SubSeq(s, i, i + Len(k) - 1) = k
        /\ \A j \in 1..(i - 1) : SubSeq(s, j, j + Len(k) - 1) # k) - 1

en_vocative_patterns == <<"-kun", "-san", "-chan", "-senpai">>

\* entity_names of lines 355-367, as a set (the ASCII honorifics; the kana ones of
\* ja_vocative_suffixes occur in no entity of the model)
NamesBefore(entity) ==
    { LastToken(SubSeq(entity, 1, StrFind(entity, en_vocative_patterns[k]))) :
        k \in {n \in 1..Len(en_vocative_patterns) :
                 /\ Contains(entity, en_vocative_patterns[n])
                 /\ StrFind(entity, en_vocative_patterns[n]) > 0} }

EntityNames(target_entity) ==
    NamesBefore(StrLower(target_entity)) \cup ({_normalize_entity(target_entity)} \ {""})

\* The kana strings of the source are written as bracketed romaji tokens: "[kun]" stands
\* for the two kana of line 350, "[dake]" for the two kana of line 388, and so on.  A
\* text of the model holds the token where the real text holds the kana.
ja_vocative_suffixes == <<"[kun]", "[san]", "[chan]", "[senpai]", "[sensei]", "[sama]">>

\* choice_patterns_ja + express_patterns_ja of lines 388-390
ja_patterns ==
    <<"[ga ii]", "[ga yoi]", "[janakya]", "[denakya]", "[shika nai]", "[dake]",
      "[suki]", "[iya]", "[aishi]", "[taisetsu]">>

\* the address cues of lines 375 and 379 (the em dash occurs in no text of the model)
AddressCues ==
    {ja_vocative_suffixes[k] : k \in 1..Len(ja_vocative_suffixes)}
    \cup {",", "!", ".", "-kun", "-san"}

\* lines 370-382: some candidate name is followed by an address cue in the lowered text
Addressed(names, text) ==
    \E name \in names : name # "" /\ \E cue \in AddressCues : Contains(text, name \o cue)

\* lines 385-395: a THIRD_PARTY act of a choosing or expressing type, a choice or feeling
\* phrase in the text, and a candidate name in the text
Reassigned(act, names, text) ==
    /\ act.target_role = "THIRD_PARTY"
    /\ act.act_type \in {"ASSERT_CHOICE", "EXPRESS", "DECLARE"}
    /\ \E k \in 1..Len(ja_patterns) : Contains(text, ja_patterns[k])
    /\ \E name \in names : name # "" /\ Contains(text, name)

\* a correction that also replaces the entity by its cleaned name
SetListenerAndClean(act) ==
    [act EXCEPT !.target_role = "LISTENER", !.target_entity = _normalize_entity(@)]

\* a correction that swaps LISTENER and THIRD_PARTY
SwapRole(act) ==
    [act EXCEPT !.target_role = IF @ = "LISTENER" THEN "THIRD_PARTY" ELSE "LISTENER"]

\* act.target_role = "LISTENER" (lines 377, 381, 394)
SetListener(act) == [act EXCEPT !.target_role = "LISTENER"]

\* _apply_vocative_correction: the act as the call leaves it
_apply_vocative_correction(act, original_text) ==
    IF Addressed(EntityNames(act.target_entity), StrLower(original_text))
    THEN SetListener(act)
    ELSE IF Reassigned(act, EntityNames(act.target_entity), StrLower(original_text))
         THEN SetListener(act)
    ELSE act

\* the loop body of lines 1106-1115 and 1183-1192
NormalizeAct(a, text) ==
    _apply_vocative_correction(
        Act(_promote_assert_by_force(_normalize_act_type(a.act_type), a.force, a.target_entity),
            _normalize_target_type(a.target_role),
            StrStrip(a.target_entity),
            StrStrip(a.force),
            a.intensity),
        text)

\* lines 1099-1102 and 1193-1195
DefaultMode(am) == IF am \in {"direct", "reported", "monologue"} THEN am ELSE "direct"

NormalizeAddressMode(mode) == DefaultMode(StrLower(StrStrip(mode)))

\* the ExtractedActs built from a parsed record d: lines 1097-1117 and 1180-1201
BuildExtracted(d, text) ==
    [primary_act |-> _normalize_act_type(DictGet(d, "primary_act", "")),
     overall_force |-> StrStrip(DictGet(d, "overall_force", "")),
     acts |-> [k \in 1..Len(DictGet(d, "acts", <<>>)) |->
                 NormalizeAct(from_dict(DictGet(d, "acts", <<>>)[k]), text)],
     address_mode |-> NormalizeAddressMode(DictGet(d, "address_mode", "direct"))]

\* the key of line 1177; sha256 is taken to be injective, so the key is its argument
CacheKey(c) == c.model \o "|" \o c.lang_hint \o "|" \o c.context_hint \o "|" \o c.text

\* the value cached_extract stores, lines 1212-1219: a.__dict__ has the field names of Act
CacheValue(extracted) ==
    [extracted |->
        [primary_act |-> extracted.primary_act,
         overall_force |-> extracted.overall_force,
         address_mode |-> extracted.address_mode,
         acts |-> extracted.acts]]

(***************************************************************************)
(* The scorer as a state machine.  Init is the state at the call           *)
(* score_iap_deterministic(original, translated).                          *)
(***************************************************************************)
MaxActs == 2

ActLists == UNION {[1..n -> ActPool] : n \in 0..MaxActs}

AddressModes == {"direct", "reported", "monologue"}
PrimaryActs == {"EXPRESS", "COMMAND"}

Headers == [primary_act : PrimaryActs, address_mode : AddressModes]

Idle == "-"

NoMatch == [used_o |-> {}, used_t |-> {}, preserved |-> <<>>]

ScoreIdle ==
    /\ o_acts = <<>> /\ t_acts = <<>> /\ o_hdr = Idle /\ t_hdr = Idle
    /\ match = NoMatch /\ n_pass1 = 0 /\ result = Idle
NormIdle == raw = Idle /\ norm = Idle
CacheIdle ==
    /\ call = Idle /\ rec = Idle /\ cache = <<>> /\ file = <<>> /\ outcome = Idle
    /\ miss_ret = Idle /\ hit_ret = Idle /\ attempt = 0 /\ log = <<>>

Init ==
    /\ pc = "pass1"
    /\ o_acts \in ActLists
    /\ t_acts \in ActLists
    /\ o_hdr \in Headers
    /\ t_hdr \in Headers
    /\ match = NoMatch
    /\ n_pass1 = 0
    /\ result = Idle
    /\ NormIdle
    /\ CacheIdle

\* lines 1281-1299
Pass1 ==
    /\ pc = "pass1"
    /\ match' = PassLoop(1, o_acts, t_acts, 1, match)
    /\ n_pass1' = Len(match'.preserved)
    /\ pc' = "pass2"
    /\ UNCHANGED <<o_acts, t_acts, o_hdr, t_hdr, result, normVars, cacheVars>>

\* lines 1301-1318
Pass2 ==
    /\ pc = "pass2"
    /\ match' = PassLoop(2, o_acts, t_acts, 1, match)
    /\ pc' = "aggregate"
    /\ UNCHANGED <<o_acts, t_acts, o_hdr, t_hdr, n_pass1, result, normVars, cacheVars>>

\* lines 1320-1450
Aggregate ==
    /\ pc = "aggregate"
    /\ result' = ScoreTail(o_acts, t_acts, o_hdr, t_hdr, match)
    /\ pc' = "done"
    /\ UNCHANGED <<o_acts, t_acts, o_hdr, t_hdr, match, n_pass1, normVars, cacheVars>>

Next == Pass1 \/ Pass2 \/ Aggregate

Spec == Init /\ [][Next]_vars

\* the scorer on originals that can lose up to three critical acts
MaxLossActs == 3

LossPool ==
    { Act("CLOSE_ESCAPE", "SITUATION", "", "closes off alternatives", 80),
      Act("ULTIMATUM", "LISTENER", "you", "or else", 90),
      Act("DECLARE", "LISTENER", "Rem", "declares", 70),
      Act("DENY_ASSUMPTION", "LISTENER", "you", "that is wrong", 60),
      Act("COMMIT", "LISTENER", "Rem", "a promise to stay", 90),
      Act("EXPRESS", "LISTENER", "Rem", "love", 50) }

InitLoss ==
    /\ pc = "pass1"
    /\ o_acts \in UNION {[1..n -> LossPool] : n \in 0..MaxLossActs}
    /\ t_acts \in UNION {[1..n -> LossPool] : n \in 0..1}
    /\ o_hdr = [primary_act |-> "EXPRESS", address_mode |-> "direct"]
    /\ t_hdr = [primary_act |-> "EXPRESS", address_mode |-> "direct"]
    /\ match = NoMatch
    /\ n_pass1 = 0
    /\ result = Idle
    /\ NormIdle
    /\ CacheIdle

SpecLoss == InitLoss /\ [][Next]_vars

\* the scorer on the acts of scenario A, for any primary acts and any equal address modes
InitScenarioA ==
    /\ pc = "pass1"
    /\ o_acts = << Act("ASSERT_CHOICE", "LISTENER", "Subaru-kun", "only you", 90),
                   Act("EXPRESS", "LISTENER", "Subaru-kun", "love", 85) >>
    /\ t_acts = << Act("ASSERT_CHOICE", "LISTENER", "Subaru", "only you", 90),
                   Act("EXPRESS", "LISTENER", "Subaru", "love", 80) >>
    /\ o_hdr \in [primary_act : CANONICAL_ACT_TYPES, address_mode : AddressModes]
    /\ t_hdr \in [primary_act : CANONICAL_ACT_TYPES, address_mode : {o_hdr.address_mode}]
    /\ match = NoMatch
    /\ n_pass1 = 0
    /\ result = Idle
    /\ NormIdle
    /\ CacheIdle

SpecScenarioA == InitScenarioA /\ [][Next]_vars

\* score_iap_deterministic as one function of its two arguments: both passes, then the rest
score_iap_deterministic(O, T, oh, th) ==
    ScoreTail(O, T, oh, th, PassLoop(2, O, T, 1, PassLoop(1, O, T, 1, NoMatch)))

(***************************************************************************)
(* The normalizers applied to raw labels                                   *)
(***************************************************************************)
RawLabels ==
    CANONICAL_ACT_TYPES \cup DOMAIN exact_mapping
    \cup {"", "  ", "assert choice", "close-escape", " Promise ", "ORDER", "STATE",
          "PROCLAIM", "love confession", "Exclusive-Choice", "refusal", "negation",
          "correction", "won't do", "pushy", "beg", "instruction", "if not", "insist",
          "zzz", "XYZ", "42", "declaration", "solemn vow"}

RawForces == {"", "plain", "closes off alternatives", "only you, rejecting others",
              "the one", "I want you", "that is wrong", "a promise to stay",
              "A promise of love"}

RawEntities == {"", "alternatives"}

RawRoles ==
    TARGET_TYPES \cup DOMAIN role_mapping
    \cup {"", "listener", "Third Party", "SPEAKER", "others", "STATE", "IDEAL", "TRUTH",
          "your own", "the addressee", "another person", "event-result", "that thing",
          "freedom", "zzz", "42"}

InitNorm ==
    /\ pc = "norm"
    /\ raw \in [label : RawLabels, force : RawForces, entity : RawEntities, role : RawRoles]
    /\ norm = Idle
    /\ ScoreIdle
    /\ CacheIdle

\* lines 1107-1111: the act type and the role of one raw act
Normalize ==
    /\ pc = "norm"
    /\ norm' = [label |-> _normalize_act_type(raw.label),
                act_type |-> _promote_assert_by_force(_normalize_act_type(raw.label),
                                                      raw.force, raw.entity),
                target_role |-> _normalize_target_type(raw.role)]
    /\ pc' = "normed"
    /\ UNCHANGED <<raw, scoreVars, cacheVars>>

NextNorm == Normalize

SpecNorm == InitNorm /\ [][NextNorm]_vars

(***************************************************************************)
(* _equiv_score applied to two labels                                      *)
(***************************************************************************)
InitEquiv ==
    /\ pc = "equiv"
    /\ raw \in [a : CANONICAL_ACT_TYPES \cup {"", "Promise", "love confession", "zzz"},
                 b : CANONICAL_ACT_TYPES \cup {"", "Promise", "love confession", "zzz"}]
    /\ norm = Idle
    /\ ScoreIdle
    /\ CacheIdle

\* the call _equiv_score(a, b); norm is its value in hundredths
EquivScore ==
    /\ pc = "equiv"
    /\ norm' = _equiv_score(raw.a, raw.b)
    /\ pc' = "scored"
    /\ UNCHANGED <<raw, scoreVars, cacheVars>>

NextEquiv == EquivScore

SpecEquiv == InitEquiv /\ [][NextEquiv]_vars

(***************************************************************************)
(* _entity_match_score applied to two entity strings                       *)
(***************************************************************************)
\* entity strings as extraction hands them over: empty, only an honorific or signs, names
\* with and without honorific, generic words, phrases
RawEntityPool ==
    {"", "  ", "-san", "?!", "Subaru-kun", "Subaru", "Rem", "Remu", "Lem", "Emilia-sama",
     "you", "the listener", "alternatives", "anyone other than Subaru",
     "any alternative to Subaru"}

InitEntity ==
    /\ pc = "entity"
    /\ raw \in [orig_entity : RawEntityPool, trans_entity : RawEntityPool]
    /\ norm = Idle
    /\ ScoreIdle
    /\ CacheIdle

\* the call _entity_match_score(orig_entity, trans_entity); norm is its value in hundredths
EntityMatch ==
    /\ pc = "entity"
    /\ norm' = _entity_match_score(raw.orig_entity, raw.trans_entity)
    /\ pc' = "compared"
    /\ UNCHANGED <<raw, scoreVars, cacheVars>>

NextEntity == EntityMatch

SpecEntity == InitEntity /\ [][NextEntity]_vars

(***************************************************************************)
(* _apply_vocative_correction applied to one act, then to the same act     *)
(* again                                                                   *)
(***************************************************************************)
InitVoc ==
    /\ pc = "voc"
    /\ raw \in [act : {Act(ty, role, entity, "only you", 90) :
                         ty \in {"ASSERT_CHOICE", "EXPRESS", "DECLARE", "ASSERT"},
                         role \in TARGET_TYPES,
                         entity \in {"Subaru-kun", "Rem", ""}},
                text : {"I want you, Rem.", "Only Subaru-kun will do", "Rem [dake]",
                        "Rem[san] and Subaru", "she likes him", "[suki]"}]
    /\ norm = <<>>
    /\ ScoreIdle
    /\ CacheIdle

\* the call of line 1115 (1192) on the act
VocativeOnce ==
    /\ pc = "voc"
    /\ norm' = <<_apply_vocative_correction(raw.act, raw.text)>>
    /\ pc' = "once"
    /\ UNCHANGED <<raw, scoreVars, cacheVars>>

\* the same call on the act the first call left
VocativeTwice ==
    /\ pc = "once"
    /\ norm' = Append(norm, _apply_vocative_correction(norm[1], raw.text))
    /\ pc' = "twice"
    /\ UNCHANGED <<raw, scoreVars, cacheVars>>

NextVoc == VocativeOnce \/ VocativeTwice

SpecVoc == InitVoc /\ [][NextVoc]_vars

(***************************************************************************)
(* cached_extract called twice with the same arguments on an empty cache   *)
(***************************************************************************)
MaxRawActs == 2

\* act records as the model's JSON output holds them
RawActPool ==
    { [type |-> "EXPRESS", target_role |-> "LISTENER", target_entity |-> "Rem",
       force |-> "love", intensity |-> 50],
      [type |-> "assertion", target_type |-> "someone", target |-> "Subaru-kun ",
       force |-> " plain ", intensity |-> 150],
      [type |-> "CLOSE_ESCAPE", target_role |-> "", target_entity |-> "",
       force |-> "", intensity |-> -20],
      [type |-> "ASSERT", target_role |-> "THIRD_PARTY", target_entity |-> "Rem",
       force |-> "only you", intensity |-> 100] }

RawRecords ==
    [primary_act : {"EXPRESS", "PROCLAIM"},
     overall_force : {" plea "},
     address_mode : {"direct", " Reported", "narration"},
     acts : UNION {[1..n -> RawActPool] : n \in 0..MaxRawActs}]

Calls ==
    [text : {"I want you, Rem.", "Only Subaru-kun will do"},
     model : {"gpt-5.2"}, lang_hint : {"en"}, context_hint : {""}]

InitCache ==
    /\ pc = "call1"
    /\ call \in Calls
    /\ rec \in RawRecords
    /\ cache = <<>>
    /\ file = <<>>
    /\ outcome = Idle
    /\ miss_ret = Idle
    /\ hit_ret = Idle
    /\ attempt = 0
    /\ log = <<>>
    /\ ScoreIdle
    /\ NormIdle

\* a line of the cache file that json.loads parses to the dict obj
ObjectLine(obj) == [line |-> "object", obj |-> obj]

\* a set that stores the key and the timestamp without the value
AppendOnly(c, key, value) == (key :> [key |-> key]) @@ c

\* JsonlCache.set on the index: record = {"key": key, "ts": ..., **value}
CacheSet(c, key, value) == (key :> ([key |-> key] @@ value)) @@ c

\* hit = cache.get(key); "hit and 'extracted' in hit" (a missing key gives None)
IsHit(c, key) == key \in DOMAIN c /\ "extracted" \in DOMAIN c[key]

\* cached_extract, lines 1203-1221: the key is not in the cache; extract_acts_llm parses
\* rec from the model output and succeeds, the result is stored and returned
ExtractMiss ==
    /\ pc = "call1"
    /\ ~IsHit(cache, CacheKey(call))
    /\ miss_ret' = BuildExtracted(rec, call.text)
    /\ cache' = CacheSet(cache, CacheKey(call), CacheValue(miss_ret'))
    /\ file' = Append(file, ObjectLine(cache'[CacheKey(call)]))
    /\ log' = log \o << [op |-> "extract_acts_llm"], [op |-> "set", key |-> CacheKey(call)] >>
    /\ pc' = "call2"
    /\ UNCHANGED <<call, rec, outcome, hit_ret, attempt, scoreVars, normVars>>

\* cached_extract, lines 1203-1209: the key is not in the cache and extract_acts_llm
\* raises; the exception leaves cached_extract before cache.set
ExtractFails ==
    /\ pc = "call1"
    /\ ~IsHit(cache, CacheKey(call))
    /\ log' = Append(log, [op |-> "extract_acts_llm"])
    /\ outcome' = "RuntimeError"
    /\ pc' = "failed"
    /\ UNCHANGED <<call, rec, cache, file, miss_ret, hit_ret, attempt, scoreVars, normVars>>

\* cached_extract, lines 1177-1201: the same call again finds the record
ExtractHit ==
    /\ pc = "call2"
    /\ IsHit(cache, CacheKey(call))
    /\ hit_ret' = BuildExtracted(cache[CacheKey(call)].extracted, call.text)
    /\ pc' = "called"
    /\ UNCHANGED <<call, rec, cache, file, outcome, miss_ret, attempt, log, scoreVars, normVars>>

NextCache == ExtractMiss \/ ExtractFails \/ ExtractHit

SpecCache == InitCache /\ [][NextCache]_vars

(***************************************************************************)
(* extract_acts_llm: the retry loop around the API call.  What the API     *)
(* answers is an input of each attempt.                                    *)
(***************************************************************************)
MaxRetries == 6

\* a backoff that is not capped at 8 seconds
UncappedSleep(n) == 750 * 2 ^ (n - 1)

\* sleep_s = min(8.0, 0.75 * (2 ** (attempt - 1))), in milliseconds
sleep_s(n) == Min2(8000, 750 * 2 ^ (n - 1))

\* the log entries of the one or two client.chat.completions.create calls of an attempt:
\* the second is made when the first fails on response_format (lines 1074-1092)
Creates(n) == [k \in 1..n |-> [op |-> "create"]]

\* what lines 1097-1117 make of each record the API may answer, for the text of the
\* calls of InitRetry, computed once
ExtractedTable ==
    { <<r, BuildExtracted(r, "I want you, Rem.")>> :
        r \in {d \in RawRecords : d.address_mode = "direct" /\ Len(d.acts) <= 1} }

InitRetry ==
    /\ pc = "attempt"
    /\ call \in [text : {"I want you, Rem."}, model : {"gpt-5.2"}, lang_hint : {"en"},
                 context_hint : {""}, max_retries : 0..MaxRetries]
    /\ attempt = 1
    /\ log = <<>>
    /\ rec \in {p[1] : p \in ExtractedTable}
    /\ cache = <<>>
    /\ file = <<>>
    /\ outcome = Idle
    /\ miss_ret = <<>>
    /\ hit_ret = Idle
    /\ ScoreIdle
    /\ NormIdle

\* lines 1062-1117: an attempt in which the API answers the record rec, which parses and
\* normalizes; miss_ret holds the ExtractedActs returned
AttemptSucceeds ==
    /\ pc = "attempt"
    /\ attempt <= call.max_retries
    /\ \E n \in 1..2 : log' = log \o Creates(n)
    /\ miss_ret' = <<(CHOOSE p \in ExtractedTable : p[1] = rec)[2]>>
    /\ outcome' = "returned"
    /\ pc' = "returned"
    /\ UNCHANGED <<call, rec, cache, file, hit_ret, attempt, scoreVars, normVars>>

\* lines 1062-1123: an attempt in which a create call, the parsing or the normalization
\* raises; the exception is kept, the loop sleeps and goes on
AttemptFails ==
    /\ pc = "attempt"
    /\ attempt <= call.max_retries
    /\ \E n \in 1..2 :
          log' = log \o Creates(n) \o << [op |-> "sleep", ms |-> sleep_s(attempt)] >>
    /\ attempt' = attempt + 1
    /\ UNCHANGED <<pc, call, rec, cache, file, outcome, miss_ret, hit_ret, scoreVars, normVars>>

\* line 1125: the loop is over
GiveUp ==
    /\ pc = "attempt"
    /\ attempt > call.max_retries
    /\ outcome' = "RuntimeError"
    /\ pc' = "raised"
    /\ UNCHANGED <<call, rec, cache, file, miss_ret, hit_ret, attempt, log, scoreVars, normVars>>

NextRetry == AttemptSucceeds \/ AttemptFails \/ GiveUp

\* every call the loop makes (the API, time.sleep) returns, so the loop always moves on
SpecRetry == InitRetry /\ [][NextRetry]_vars /\ WF_vars(NextRetry)

(***************************************************************************)
(* cached_extract on a cache file written earlier, sound or not.  A value  *)
(* read from the file has the type the file gives it: where the code       *)
(* depends on that type the value is [json |-> type, v |-> value].         *)
(***************************************************************************)
MaxLines == 2

JsonNumber(n) == [json |-> "number", v |-> n]
JsonString(str) == [json |-> "string", v |-> str]
JsonObject(obj) == [json |-> "object", v |-> obj]

\* the stored "extracted" values for the requested key
StoredExtracted ==
    { JsonString("oops"),
      JsonObject([primary_act |-> "EXPRESS", overall_force |-> "plea",
                  address_mode |-> "direct",
                  acts |-> << [type |-> "EXPRESS", target_role |-> "LISTENER",
                               target_entity |-> "Rem", force |-> "love",
                               intensity |-> JsonNumber(50)] >>]),
      JsonObject([primary_act |-> "EXPRESS", overall_force |-> "plea",
                  address_mode |-> "direct",
                  acts |-> << [type |-> "EXPRESS", force |-> "love"] >>]),
      JsonObject([primary_act |-> "EXPRESS", overall_force |-> "plea",
                  address_mode |-> "direct",
                  acts |-> << [type |-> "EXPRESS", target_role |-> "LISTENER",
                               target_entity |-> "Rem", force |-> "love",
                               intensity |-> JsonString("high")] >>]) }

\* the lines a cache file may hold: blank, not JSON, JSON but no object, an object
\* without "key", a record of another key, records of the requested key
LinePool(key) ==
    { [line |-> "blank"], [line |-> "invalid"], [line |-> "array"],
      ObjectLine([ts |-> "t0"]),
      ObjectLine([key |-> "other", extracted |-> JsonString("oops")]),
      ObjectLine([key |-> key, ts |-> "t0"]) }
    \cup { ObjectLine([key |-> key, extracted |-> e]) : e \in StoredExtracted }

RECURSIVE LoadFrom(_, _, _)
\* JsonlCache.load from line k on: a line that json.loads rejects, or that parses to a
\* value without .get, empties the whole index
LoadFrom(lines, k, index) ==
    IF k > Len(lines) THEN index
    ELSE IF lines[k].line = "blank" THEN LoadFrom(lines, k + 1, index)
    ELSE IF lines[k].line # "object" THEN <<>>
    ELSE IF "key" \in DOMAIN lines[k].obj /\ lines[k].obj.key # ""
         THEN LoadFrom(lines, k + 1, (lines[k].obj.key :> lines[k].obj) @@ index)
    ELSE LoadFrom(lines, k + 1, index)

\* float(d.get("intensity", 0.0)) raises for a string that is no number
FloatRaises(a) == "intensity" \in DOMAIN a /\ a.intensity.json # "number"

\* the act record with its intensity as the number float() returns
WithFloat(a) ==
    IF "intensity" \in DOMAIN a
    THEN [k \in DOMAIN a |-> IF k = "intensity" THEN a[k].v ELSE a[k]]
    ELSE a

\* the dict d = hit["extracted"] with the acts as from_dict reads them
WithFloats(d) ==
    [k \in DOMAIN d |-> IF k = "acts" THEN [n \in 1..Len(d.acts) |-> WithFloat(d.acts[n])]
                        ELSE d[k]]

\* lines 1180-1201 on the stored value e = hit["extracted"]: the exception raised, "" for none
HitException(e) ==
    IF e.json # "object" THEN "AttributeError"
    ELSE IF \E n \in 1..Len(DictGet(e.v, "acts", <<>>)) : FloatRaises(e.v.acts[n])
         THEN "ValueError"
    ELSE ""

InitStored ==
    /\ pc = "load"
    /\ call \in Calls
    /\ rec \in {r \in RawRecords : r.primary_act = "EXPRESS" /\ r.address_mode = "direct"
                                   /\ Len(r.acts) <= 1}
    /\ file \in UNION {[1..n -> LinePool(CacheKey(call))] : n \in 0..MaxLines}
    /\ cache = <<>>
    /\ outcome = Idle
    /\ miss_ret = Idle
    /\ hit_ret = Idle
    /\ attempt = 0
    /\ log = <<>>
    /\ ScoreIdle
    /\ NormIdle

\* cached_extract, line 1178: cache.get(key) loads the file
LoadCache ==
    /\ pc = "load"
    /\ cache' = LoadFrom(file, 1, <<>>)
    /\ pc' = "loaded"
    /\ UNCHANGED <<call, rec, file, outcome, miss_ret, hit_ret, attempt, log, scoreVars, normVars>>

\* cached_extract, lines 1179-1201: the stored record has "extracted" and rebuilds
StoredHit ==
    /\ pc = "loaded"
    /\ IsHit(cache, CacheKey(call))
    /\ HitException(cache[CacheKey(call)].extracted) = ""
    /\ hit_ret' = BuildExtracted(WithFloats(cache[CacheKey(call)].extracted.v), call.text)
    /\ outcome' = "hit"
    /\ pc' = "called"
    /\ UNCHANGED <<call, rec, cache, file, miss_ret, attempt, log, scoreVars, normVars>>

\* cached_extract, lines 1179-1183: the stored record has "extracted" and reading it raises
StoredRaise ==
    /\ pc = "loaded"
    /\ IsHit(cache, CacheKey(call))
    /\ HitException(cache[CacheKey(call)].extracted) # ""
    /\ outcome' = HitException(cache[CacheKey(call)].extracted)
    /\ pc' = "called"
    /\ UNCHANGED <<call, rec, cache, file, miss_ret, hit_ret, attempt, log, scoreVars, normVars>>

\* cached_extract, lines 1203-1221: no usable record, a fresh extraction is made and stored
StoredMiss ==
    /\ pc = "loaded"
    /\ ~IsHit(cache, CacheKey(call))
    /\ miss_ret' = BuildExtracted(rec, call.text)
    /\ cache' = CacheSet(cache, CacheKey(call), CacheValue(miss_ret'))
    /\ file' = Append(file, ObjectLine(cache'[CacheKey(call)]))
    /\ log' = log \o << [op |-> "extract_acts_llm"], [op |-> "set", key |-> CacheKey(call)] >>
    /\ outcome' = "fresh"
    /\ pc' = "called"
    /\ UNCHANGED <<call, rec, hit_ret, attempt, scoreVars, normVars>>

NextStored == LoadCache \/ StoredHit \/ StoredRaise \/ StoredMiss

SpecStored == InitStored /\ [][NextStored]_vars

(***************************************************************************)
(* One JsonlCache object used for a sequence of get and set calls on a     *)
(* cache file written earlier                                              *)
(***************************************************************************)
MaxOps == 3

\* a cache that reads the file again at every call
Reload(p, lines, index) == LoadFrom(lines, 1, <<>>)

\* self.load() as get and set call it: the file is read on the first call only
load(p, lines, index) == IF p = "new" THEN LoadFrom(lines, 1, <<>>) ELSE index

InitJsonl ==
    /\ pc = "new"
    /\ file \in UNION {[1..n -> { [line |-> "blank"], [line |-> "invalid"], [line |-> "array"],
                                 ObjectLine([ts |-> "t0"]),
                                 ObjectLine([key |-> "k1", extracted |-> "old"]),
                                 ObjectLine([key |-> "k1", extracted |-> "older"]),
                                 ObjectLine([key |-> "k2", extracted |-> "old"]) }]
                         : n \in 0..MaxLines}
    /\ cache = <<>>
    /\ log = <<>>
    /\ hit_ret = <<>>
    /\ call = Idle /\ rec = Idle /\ outcome = Idle /\ miss_ret = Idle /\ attempt = 0
    /\ ScoreIdle
    /\ NormIdle

\* JsonlCache.get(key); hit_ret is <<>> for None and <<record>> for a record
Get ==
    /\ Len(log) < MaxOps
    /\ \E key \in {"k1", "k2"} :
          /\ cache' = load(pc, file, cache)
          /\ hit_ret' = IF key \in DOMAIN cache' THEN <<cache'[key]>> ELSE <<>>
          /\ log' = Append(log, [op |-> "get", key |-> key])
    /\ pc' = "loaded"
    /\ UNCHANGED <<call, rec, file, outcome, miss_ret, attempt, scoreVars, normVars>>

\* JsonlCache.set(key, value)
Set ==
    /\ Len(log) < MaxOps
    /\ \E key \in {"k1", "k2"}, value \in {[extracted |-> "new"], [extracted |-> "newer"]} :
          /\ cache' = CacheSet(load(pc, file, cache), key, value)
          /\ file' = Append(file, ObjectLine(cache'[key]))
          /\ log' = Append(log, [op |-> "set", key |-> key, value |-> value])
    /\ pc' = "loaded"
    /\ UNCHANGED <<call, rec, outcome, miss_ret, hit_ret, attempt, scoreVars, normVars>>

NextJsonl == Get \/ Set

SpecJsonl == InitJsonl /\ [][NextJsonl]_vars

(***************************************************************************)
(* Properties of the scorer (Spec)                                         *)
(***************************************************************************)
\* C1: after pass 1 and after pass 2 the matched pairs are a partial injection: no index
\* of o_acts and no index of t_acts is in more than one pair of preserved.
C1_PartialInjection ==
    pc \in {"pass2", "aggregate", "done"} =>
        /\ \A k \in 1..Len(match.preserved) :
              /\ match.preserved[k][1] \in 1..Len(o_acts)
              /\ match.preserved[k][2] \in 1..Len(t_acts)
        /\ \A k, l \in 1..Len(match.preserved) :
              k # l => /\ match.preserved[k][1] # match.preserved[l][1]
                       /\ match.preserved[k][2] # match.preserved[l][2]

\* two pairs are matched, the first by pass 1 and the second by pass 2
C1_TwoPairsWitness ==
    pc = "done" /\ Len(match.preserved) = 2 /\ n_pass1 = 1

\* C2 as stated: an act set scored against an identical copy of itself with the same
\* address mode has set, force and target rate, intensity_match and overall all 1.0,
\* the empty act list and acts with an empty (canonical) target entity included.
C2_IdentityAllOnes ==
    (pc = "done" /\ t_acts = o_acts /\ t_hdr.address_mode = o_hdr.address_mode) =>
        /\ result.status = "returned"
        /\ result.iap_set = 1000
        /\ result.iap_force = 1000
        /\ result.iap_target = 1000
        /\ result.intensity_match = 1000
        /\ result.overall = 1000

\* C2, amended: the five measures are 1.0 for an identical copy with the same address mode
\* when the act list is not empty and every target entity has a non-empty canonical form.
C2_IdentityNamedEntities ==
    (/\ pc = "done" /\ t_acts = o_acts /\ t_hdr.address_mode = o_hdr.address_mode
     /\ o_acts # <<>>
     /\ \A i \in 1..Len(o_acts) : _canonicalize_entity(o_acts[i].target_entity) # "") =>
        /\ result.status = "returned"
        /\ result.iap_set = 1000
        /\ result.iap_force = 1000
        /\ result.iap_target = 1000
        /\ result.intensity_match = 1000
        /\ result.overall = 1000

\* two different acts with named entities scored against their copy
C2_IdentityWitness ==
    /\ pc = "done" /\ t_acts = o_acts /\ t_hdr.address_mode = o_hdr.address_mode
    /\ Len(o_acts) = 2 /\ o_acts[1] # o_acts[2]
    /\ \A i \in 1..Len(o_acts) : _canonicalize_entity(o_acts[i].target_entity) # ""
    /\ result.status = "returned" /\ result.overall = 1000

\* C4 as stated: for any input, both act lists empty and acts with any intensity value
\* included, score_iap_deterministic returns an overall, and it is in [0,1].
C4_OverallInUnitInterval ==
    pc = "done" => (result.status = "returned" /\ result.overall \in 0..1000)

\* C4 for the calls that return: the overall of every IAPResult is in [0,1].  What is left
\* of C4 are the calls that raise, which C10 is about.
C4_ReturnedOverallInRange ==
    (pc = "done" /\ result.status = "returned") => result.overall \in 0..1000

\* C7: in the final matching no type-identical pair (o, t) is stolen: never is o lost or
\* matched below 0.95 while t is added or matched below 0.95 to another original act.
C7_NoStolenIdenticalPair ==
    pc = "done" =>
        \A i \in 1..Len(o_acts), j \in 1..Len(t_acts) :
            NormType(o_acts[i].act_type) = NormType(t_acts[j].act_type) =>
                ~(/\ \A k \in 1..Len(match.preserved) :
                        match.preserved[k][1] = i => match.preserved[k][3] < 95
                  /\ \A k \in 1..Len(match.preserved) :
                        match.preserved[k][2] = j =>
                            match.preserved[k][1] # i /\ match.preserved[k][3] < 95)

\* the first original act is merely similar to the only translated act, the second has
\* its type: the second gets it
C7_SimilarFirstWitness ==
    /\ pc = "done" /\ Len(o_acts) = 2 /\ Len(t_acts) = 1
    /\ _equiv_score(o_acts[1].act_type, t_acts[1].act_type) \in 1..94
    /\ NormType(o_acts[2].act_type) = NormType(t_acts[1].act_type)
    /\ match.preserved = <<<<2, 1, 100>>>>

\* C8 as stated: no_critical_loss is true iff the original's declared primary act is
\* type-equivalent (score > 0) to a preserved pair, every original act with intensity
\* >= 0.8 is itself in a matched pair, and no lost act has a critical type.
C8_NoCriticalLossAsStated ==
    (pc = "done" /\ result.status = "returned") =>
        (result.no_critical_loss <=>
            /\ \E k \in 1..Len(match.preserved) :
                  /\ _equiv_score(o_hdr.primary_act,
                                  o_acts[match.preserved[k][1]].act_type) > 0
                  /\ _equiv_score(o_hdr.primary_act,
                                  t_acts[match.preserved[k][2]].act_type) > 0
            /\ \A i \in 1..Len(o_acts) :
                  o_acts[i].intensity >= 80 => i \in match.used_o
            /\ \A i \in 1..Len(o_acts) :
                  i \notin match.used_o => o_acts[i].act_type \notin CRITICAL_ACT_TYPES)

\* C8, amended: no_critical_loss is true iff (the original's declared primary act is
\* type-equivalent to both acts of some preserved pair, or to the translation's declared
\* primary act), every original act with intensity >= 0.8 is type-equivalent to the
\* original act of some preserved pair, and no lost act has a critical type.
C8_NoCriticalLossIff ==
    (pc = "done" /\ result.status = "returned") =>
        (result.no_critical_loss <=>
            /\ \/ \E k \in 1..Len(match.preserved) :
                     /\ _equiv_score(o_hdr.primary_act,
                                     o_acts[match.preserved[k][1]].act_type) > 0
                     /\ _equiv_score(o_hdr.primary_act,
                                     t_acts[match.preserved[k][2]].act_type) > 0
               \/ _equiv_score(o_hdr.primary_act, t_hdr.primary_act) > 0
            /\ \A i \in 1..Len(o_acts) :
                  o_acts[i].intensity >= 80 =>
                      \E k \in 1..Len(match.preserved) :
                          _equiv_score(o_acts[i].act_type,
                                       o_acts[match.preserved[k][1]].act_type) > 0
            /\ \A i \in 1..Len(o_acts) :
                  i \notin match.used_o => o_acts[i].act_type \notin CRITICAL_ACT_TYPES)

\* a high-intensity act is lost and no_critical_loss is true all the same, its type being
\* preserved by another pair
C8_FallbackWitness ==
    /\ pc = "done" /\ result.status = "returned" /\ result.no_critical_loss
    /\ \E i \in 1..Len(o_acts) : o_acts[i].intensity >= 80 /\ i \notin match.used_o

\* C10 as stated: score_iap_deterministic returns an IAPResult and raises nothing, for
\* acts with intensities of any value, negative or above 1 included.
C10_NeverRaises ==
    pc = "done" => result.status = "returned"

(***************************************************************************)
(* Properties of the normalizers (SpecNorm)                                *)
(***************************************************************************)
\* C5: for every raw string the normalized and promoted act type is one of the 13
\* canonical types and the normalized role one of the 6 canonical roles; a label that no
\* synonym, no canonical label and no keyword family matches, on an act whose force and
\* entity hold no promotion cue, gives ASSERT, and a role that no canonical role, no
\* synonym and no keyword family matches gives LISTENER.
C5_NormalizationTotal ==
    pc = "normed" =>
        /\ Cardinality(CANONICAL_ACT_TYPES) = 13 /\ Cardinality(TARGET_TYPES) = 6
        /\ norm.label \in CANONICAL_ACT_TYPES
        /\ norm.act_type \in CANONICAL_ACT_TYPES
        /\ norm.target_role \in TARGET_TYPES
        /\ (/\ LabelKey(raw.label) \notin DOMAIN exact_mapping
            /\ LabelKey(raw.label) \notin CANONICAL_ACT_TYPES
            /\ \A c \in 1..Len(TypeCascade) : \A kw \in TypeCascade[c][1] :
                  ~Contains(StrLower(LabelKey(raw.label)), kw)
            /\ \A kw \in close_escape_patterns \cup assert_choice_patterns
                         \cup express_patterns \cup deny_assumption_patterns
                         \cup commit_patterns :
                  ~Contains(StrLower(raw.force) \o " " \o StrLower(raw.entity), kw))
           => norm.act_type = "ASSERT"
        /\ (/\ LabelKey(raw.role) \notin TARGET_TYPES
            /\ LabelKey(raw.role) \notin DOMAIN role_mapping
            /\ \A c \in 1..Len(RoleCascade) : \A kw \in RoleCascade[c][1] :
                  ~Contains(StrLower(LabelKey(raw.role)), kw))
           => norm.target_role = "LISTENER"

\* an invented label and an invented role end in the fallbacks
C5_FallbackWitness ==
    /\ pc = "normed" /\ raw.label = "zzz" /\ raw.role = "zzz" /\ raw.force = "plain"
    /\ norm.act_type = "ASSERT" /\ norm.target_role = "LISTENER"

\* C6 as stated: _normalize_act_type returns each of the 13 labels of
\* CANONICAL_ACT_TYPES unchanged.
C6_CanonicalUnchanged ==
    (pc = "normed" /\ raw.label \in CANONICAL_ACT_TYPES) => norm.label = raw.label

C9_IntensityClamped ==
    /\ pc \in {"call2", "called"} =>
          \A k \in 1..Len(miss_ret.acts) : miss_ret.acts[k].intensity \in 0..100
    /\ pc = "called" =>
          \A k \in 1..Len(hit_ret.acts) : hit_ret.acts[k].intensity \in 0..100

(***************************************************************************)
(* Properties of cached_extract on a stored cache file (SpecStored)        *)
(***************************************************************************)
\* C11 as stated: whatever the cache file holds and whatever record is stored for the
\* requested key (unparseable line, record without "extracted", "extracted" no object,
\* act records with a missing or non-numeric field), cached_extract does not raise.
C11_StoredNeverRaises ==
    pc = "called" => outcome \in {"hit", "fresh"}

\* a line that cannot be parsed makes the call a miss, a stored record for the key or not
C11_UnparseableIsMiss ==
    (pc = "called" /\ \E k \in 1..Len(file) : file[k].line = "invalid") => outcome = "fresh"

(***************************************************************************)
(* Scenarios and penalties of the scorer (Spec)                            *)
(***************************************************************************)
\* the case of scenario B: the call returned and the one critical act lost is a CLOSE_ESCAPE
OneCloseEscapeLost ==
    /\ pc = "done"
    /\ result.status = "returned"
    /\ Len(CriticalLost(o_acts, match.used_o)) = 1
    /\ o_acts[CriticalLost(o_acts, match.used_o)[1]].act_type = "CLOSE_ESCAPE"

\* the same original against the translation that also has the lost act i
WithPreserved(i) ==
    score_iap_deterministic(o_acts, Append(t_acts, o_acts[i]), o_hdr, t_hdr)

StrictlyLower(r, with) == with.status = "returned" /\ r.overall < with.overall

LowerUnlessZero(r, with) ==
    with.status = "returned" =>
        /\ r.overall <= with.overall
        /\ with.overall > 0 => r.overall < with.overall

IdenticalDirectReported ==
    /\ pc = "done"
    /\ result.status = "returned"
    /\ t_acts = o_acts
    /\ o_hdr.address_mode = "direct"
    /\ t_hdr.address_mode = "reported"

\* the same two act sets scored with the address mode of the original on both sides
WithMatchingModes ==
    score_iap_deterministic(o_acts, t_acts, o_hdr,
                            [t_hdr EXCEPT !.address_mode = o_hdr.address_mode])

\* C13 as stated: for any act set scored against an identical copy, direct against reported,
\* address_mode_penalty is 0.35 and overall is strictly lower than with matching modes.
C13_ScenarioCAnyActSet ==
    IdenticalDirectReported =>
        /\ result.address_mode_penalty = 350
        /\ StrictlyLower(result, WithMatchingModes)

\* C13, amended: the penalty is 0.35 for every act set; overall is strictly lower than with
\* matching modes when the act set is not empty, and 0 in both cases when it is empty.
C13_ScenarioC ==
    IdenticalDirectReported =>
        /\ result.address_mode_penalty = 350
        /\ o_acts # <<>> => StrictlyLower(result, WithMatchingModes)
        /\ o_acts = <<>> => (result.overall = 0 /\ WithMatchingModes.overall = 0)

C13_ScenarioCWitness ==
    /\ IdenticalDirectReported
    /\ Len(o_acts) = 2
    /\ result.overall + 350 = WithMatchingModes.overall

(***************************************************************************)
(* Scenario D and the close pairs (SpecNorm)                               *)
(***************************************************************************)
\* the case of scenario D: the raw label is PROCLAIM and the force text contains "promise"
ProclaimWithPromise ==
    /\ pc = "normed"
    /\ raw.label = "PROCLAIM"
    /\ Contains(StrLower(raw.force), "promise")

\* C14 as stated: the label PROCLAIM with any force text containing "promise" (here even
\* with an empty target entity) is normalized and promoted to COMMIT.
C14_ProclaimAnyPromise ==
    (ProclaimWithPromise /\ raw.entity = "") => norm.act_type = "COMMIT"

\* C14, amended: PROCLAIM normalizes to ASSERT, and with "promise" in the force it is
\* promoted to COMMIT exactly when the force and the target entity hold no cue of the
\* four families tried before the commit cues; otherwise to the type of such a family.
C14_ScenarioD ==
    ProclaimWithPromise =>
        /\ norm.label = "ASSERT"
        /\ norm.act_type = "COMMIT" <=>
              ~AnyIn(close_escape_patterns \cup assert_choice_patterns \cup express_patterns
                     \cup deny_assumption_patterns,
                     StrLower(raw.force) \o " " \o StrLower(raw.entity))
        /\ norm.act_type \in {"COMMIT", "CLOSE_ESCAPE", "ASSERT_CHOICE", "EXPRESS",
                              "DENY_ASSUMPTION"}

C14_ScenarioDWitness ==
    /\ ProclaimWithPromise
    /\ raw.force = "a promise to stay"
    /\ norm.act_type = "COMMIT"

(***************************************************************************)
(* Properties of _equiv_score (SpecEquiv)                                  *)
(***************************************************************************)
\* the two labels scored are the two labels of entry k of the close-pairs table
IsClosePair(k) == raw.a # raw.b /\ {raw.a, raw.b} = close_pairs[k][1]

\* C15 as stated: for every pair of labels listed in the close-pairs table, in either
\* order, _equiv_score of the two labels is the value listed with the pair.
C15_ClosePairsListedValue ==
    pc = "scored" =>
        \A k \in 1..Len(close_pairs) : IsClosePair(k) => norm = close_pairs[k][2]

\* the listed value is returned for the pairs that no equivalence class holds and that
\* normalization leaves apart
C15_UnshadowedPairs ==
    pc = "scored" =>
        \A k \in {1, 2, 3, 5, 8, 9, 10} : IsClosePair(k) => norm = close_pairs[k][2]

(***************************************************************************)
(* The critical-loss penalty (SpecLoss)                                    *)
(***************************************************************************)
\* the lost original acts whose type is one of the five critical types
LostCritical ==
    {i \in 1..Len(o_acts) :
        /\ i \notin match.used_o
        /\ o_acts[i].act_type \in {"CLOSE_ESCAPE", "ULTIMATUM", "DECLARE", "DENY_ASSUMPTION",
                                   "COMMIT"}}

\* C16: critical_loss_penalty is min(0.40, 0.20 x the number of lost original acts whose
\* type is CLOSE_ESCAPE, ULTIMATUM, DECLARE, DENY_ASSUMPTION or COMMIT); other lost acts and
\* matched acts add nothing, so the penalty is 0, 0.20 or 0.40.
C16_CriticalLossPenalty ==
    (pc = "done" /\ result.status = "returned") =>
        /\ result.critical_loss_penalty = Min2(400, 200 * Cardinality(LostCritical))
        /\ result.critical_loss_penalty \in {0, 200, 400}

C16_CapWitness ==
    /\ pc = "done"
    /\ result.status = "returned"
    /\ Cardinality(LostCritical) = 3
    /\ Len(result.lost) = 3
    /\ result.critical_loss_penalty = 400

(***************************************************************************)
(* The address-mode penalty (Spec)                                         *)
(***************************************************************************)
\* overall r is overall m of the matching-mode case reduced by p before the clipping
ReducedBy(r, m, p) ==
    /\ m.status = "returned"
    /\ r.overall <= m.overall
    /\ m.overall < 1000 => r.overall = Max2(0, m.overall - p)

\* C17: address_mode_penalty is 0 for equal address modes and otherwise 0.35, 0.20, 0.10,
\* 0.10, 0.10, 0.15 for direct->reported, direct->monologue, reported->direct,
\* reported->monologue, monologue->direct, monologue->reported; overall is the unclipped
\* score of the matching-mode case less exactly this penalty, then clipped.
C17_AddressModePenalty ==
    (pc = "done" /\ result.status = "returned") =>
        /\ o_hdr.address_mode = t_hdr.address_mode => result.address_mode_penalty = 0
        /\ result.address_mode_match <=> o_hdr.address_mode = t_hdr.address_mode
        /\ \A pr \in { <<"direct", "reported", 350>>, <<"direct", "monologue", 200>>,
                      <<"reported", "direct", 100>>, <<"reported", "monologue", 100>>,
                      <<"monologue", "direct", 100>>, <<"monologue", "reported", 150>> } :
              (o_hdr.address_mode = pr[1] /\ t_hdr.address_mode = pr[2])
                  => result.address_mode_penalty = pr[3]
        /\ ReducedBy(result, WithMatchingModes, result.address_mode_penalty)

C17_MonologueReportedWitness ==
    /\ pc = "done"
    /\ result.status = "returned"
    /\ o_hdr.address_mode = "monologue"
    /\ t_hdr.address_mode = "reported"
    /\ result.address_mode_penalty = 150
    /\ result.overall > 0
    /\ result.overall + 150 = WithMatchingModes.overall

(***************************************************************************)
(* Act.from_dict on a record with a missing field (SpecStored)             *)
(***************************************************************************)
\* the act record a has none of the names of some field of Act
MissingField(a) ==
    \/ "type" \notin DOMAIN a
    \/ {"target_role", "target_type"} \cap DOMAIN a = {}
    \/ {"target_entity", "target"} \cap DOMAIN a = {}
    \/ "force" \notin DOMAIN a
    \/ "intensity" \notin DOMAIN a

\* the record found for the requested key holds an act record with a missing field
HitWithMissingField ==
    /\ pc = "called"
    /\ outcome # "fresh"
    /\ IsHit(cache, CacheKey(call))
    /\ cache[CacheKey(call)].extracted.json = "object"
    /\ \E n \in 1..Len(cache[CacheKey(call)].extracted.v.acts) :
          MissingField(cache[CacheKey(call)].extracted.v.acts[n])

\* C18 as stated: when an act record handed to Act.from_dict is missing a required field
\* entirely, from_dict raises; no Act with a filled-in field is built from it.
C18_MissingFieldRaises ==
    HitWithMissingField => outcome # "hit"

(***************************************************************************)
(* Properties of the vocative corrector (SpecVoc)                          *)
(***************************************************************************)
\* C19: after _apply_vocative_correction the act's target_role is its previous value or
\* LISTENER, and act_type, target_entity, force and intensity are as before.
C19_OnlyRoleToListener ==
    pc \in {"once", "twice"} =>
        /\ norm[1].target_role \in {raw.act.target_role, "LISTENER"}
        /\ norm[1].act_type = raw.act.act_type
        /\ norm[1].target_entity = raw.act.target_entity
        /\ norm[1].force = raw.act.force
        /\ norm[1].intensity = raw.act.intensity
        /\ DOMAIN norm[1] = DOMAIN raw.act

C19_CorrectedWitness ==
    /\ pc = "once"
    /\ raw.act.target_role = "SITUATION"
    /\ raw.act.target_entity = "Subaru-kun"
    /\ norm[1].target_role = "LISTENER"

\* C20: applying _apply_vocative_correction to the act a second time, with the same text,
\* leaves it as the first application left it, also when the first application reassigned
\* a THIRD_PARTY act by the secondary rule.
C20_Idempotent ==
    pc = "twice" => norm[2] = norm[1]

\* a THIRD_PARTY act that only the secondary rule reassigns, applied twice
C20_SecondaryRuleWitness ==
    /\ pc = "twice"
    /\ raw.act.target_role = "THIRD_PARTY"
    /\ raw.text = "Rem [dake]"
    /\ ~Addressed(EntityNames(raw.act.target_entity), StrLower(raw.text))
    /\ norm[1].target_role = "LISTENER"
    /\ norm[2] = norm[1]

(***************************************************************************)
(* Properties of _entity_match_score (SpecEntity)                          *)
(***************************************************************************)
\* C21: the entity similarity is the neutral 0.5 whenever at least one of the two
\* entities canonicalizes to the empty string, before identity, containment, prefix,
\* shared substring and semantic set are looked at; it is never 0.5 otherwise.
C21_EmptyCanonNeutral ==
    pc = "compared" =>
        /\ (_canonicalize_entity(raw.orig_entity) = ""
            \/ _canonicalize_entity(raw.trans_entity) = "") => norm = 50
        /\ norm = 50 => (_canonicalize_entity(raw.orig_entity) = ""
                         \/ _canonicalize_entity(raw.trans_entity) = "")
        /\ \A e \in {"", "  ", "-san", "?!"} : _canonicalize_entity(e) = ""

\* one side only canonicalizes to the empty string, and two equal strings that both do
C21_OneSideWitness ==
    /\ pc = "compared"
    /\ raw.orig_entity = "-san"
    /\ raw.trans_entity \in {"-san", "Subaru"}
    /\ norm = 50

(***************************************************************************)
(* Scenario A (SpecScenarioA)                                              *)
(***************************************************************************)
\* C22: with the original and translated acts of scenario A and equal address modes, both
\* original acts are matched in pass 1, set_rate is 1.0, target_rate is at least 0.9 and
\* overall is above 0.85.
C22_ScenarioA ==
    /\ pc \in {"pass2", "aggregate", "done"} =>
          (n_pass1 = 2 /\ {match.preserved[k][1] : k \in 1..n_pass1} = {1, 2})
    /\ pc = "done" =>
          /\ result.status = "returned"
          /\ result.iap_set = 1000
          /\ result.iap_target >= 900
          /\ result.overall > 850

C22_ScenarioAWitness ==
    /\ pc = "done"
    /\ match.preserved = << <<1, 1, 100>>, <<2, 2, 100>> >>
    /\ result.lost = <<>>
    /\ result.added = <<>>
    /\ result.overall > 850

(***************************************************************************)
(* The matching as a whole (Spec)                                          *)
(***************************************************************************)
\* q lists, in increasing order and once each, the indices of 1..n that are not in used
ListsTheRest(q, n, used) ==
    /\ {q[k] : k \in 1..Len(q)} = (1..n) \ used
    /\ \A k \in 1..(Len(q) - 1) : q[k] < q[k + 1]

\* C23: every original act is either matched or lost and every translated act either
\* matched or added, never both: |preserved| + |lost| = |O|, |preserved| + |added| = |T|,
\* and lost and added list the unmatched acts in input order.
C23_Partition ==
    (pc = "done" /\ result.status = "returned") =>
        /\ Len(match.preserved) + Len(result.lost) = Len(o_acts)
        /\ Len(match.preserved) + Len(result.added) = Len(t_acts)
        /\ ListsTheRest(result.lost, Len(o_acts),
                        {match.preserved[k][1] : k \in 1..Len(match.preserved)})
        /\ ListsTheRest(result.added, Len(t_acts),
                        {match.preserved[k][2] : k \in 1..Len(match.preserved)})
        /\ Cardinality({match.preserved[k][1] : k \in 1..Len(match.preserved)})
              = Len(match.preserved)
        /\ Cardinality({match.preserved[k][2] : k \in 1..Len(match.preserved)})
              = Len(match.preserved)

C23_OneOfEachWitness ==
    /\ pc = "done"
    /\ result.status = "returned"
    /\ Len(match.preserved) = 1
    /\ result.lost = <<1>>
    /\ result.added = <<2>>

(***************************************************************************)
(* The promotion pass and the labels it can give (SpecNorm)                *)
(***************************************************************************)
\* the promoted type for the normalized label, given the text force + " " + target_entity
FirstFamily(label, promoted, combined) ==
    /\ label # "ASSERT" => promoted = label
    /\ label = "ASSERT" =>
          /\ AnyIn(close_escape_patterns, combined) => promoted = "CLOSE_ESCAPE"
          /\ (~AnyIn(close_escape_patterns, combined)
              /\ AnyIn(assert_choice_patterns, combined)) => promoted = "ASSERT_CHOICE"
          /\ (~AnyIn(close_escape_patterns \cup assert_choice_patterns, combined)
              /\ AnyIn(express_patterns, combined)) => promoted = "EXPRESS"
          /\ (~AnyIn(close_escape_patterns \cup assert_choice_patterns
                     \cup express_patterns, combined)
              /\ AnyIn(deny_assumption_patterns, combined)) => promoted = "DENY_ASSUMPTION"
          /\ (~AnyIn(close_escape_patterns \cup assert_choice_patterns
                     \cup express_patterns \cup deny_assumption_patterns, combined)
              /\ AnyIn(commit_patterns, combined)) => promoted = "COMMIT"
          /\ promoted = "ASSERT" <=>
                ~AnyIn(close_escape_patterns \cup assert_choice_patterns
                       \cup express_patterns \cup deny_assumption_patterns
                       \cup commit_patterns, combined)

\* C24: _promote_assert_by_force returns every type other than ASSERT unchanged, and for
\* ASSERT the type of the first cue family found in force + target_entity, in the order
\* exclusion, exclusivity, affect, presupposition-correction, commitment; ASSERT stays
\* only when no family matches.
C24_PromotionOrder ==
    pc = "normed" =>
        FirstFamily(norm.label, norm.act_type,
                    StrLower(raw.force) \o " " \o StrLower(raw.entity))

\* exclusivity and exclusion cues together: the exclusion family wins
C24_ExclusionFirstWitness ==
    /\ pc = "normed"
    /\ norm.label = "ASSERT"
    /\ raw.force = "only you, rejecting others"
    /\ raw.entity = ""
    /\ norm.act_type = "CLOSE_ESCAPE"

(***************************************************************************)
(* The retry loop of extract_acts_llm (SpecRetry)                          *)
(***************************************************************************)
\* the durations of the sleeps logged, in order
Sleeps(l) ==
    LET IsSleep(e) == e.op = "sleep"
        s == SelectSeq(l, IsSleep)
    IN  [k \in 1..Len(s) |-> s[k].ms]

\* at most max_retries attempts, a sleep of min(8, 0.75 x 2^(k-1)) s after failed attempt k,
\* a return only after fewer than max_retries failures, RuntimeError only after max_retries
RetryBounds ==
    /\ Len(Sleeps(log)) <= call.max_retries
    /\ Len(Sleeps(log)) = attempt - 1
    /\ \A k \in 1..Len(Sleeps(log)) :
          Sleeps(log)[k] = (IF k >= 5 THEN 8000
                            ELSE IF k = 4 THEN 6000
                            ELSE IF k = 3 THEN 3000
                            ELSE IF k = 2 THEN 1500 ELSE 750)
    /\ pc = "returned" =>
          (outcome = "returned" /\ attempt <= call.max_retries /\ log[Len(log)].op = "create")
    /\ pc = "raised" => (outcome = "RuntimeError" /\ Len(Sleeps(log)) = call.max_retries)
    /\ (pc = "attempt" /\ Len(Sleeps(log)) = call.max_retries)
          => ~ENABLED AttemptSucceeds /\ ~ENABLED AttemptFails

\* C25: extract_acts_llm makes at most max_retries attempts, returns at the first attempt
\* that succeeds, sleeps min(8.0, 0.75 x 2^(attempt-1)) seconds after each failed attempt,
\* raises RuntimeError exactly when max_retries attempts have failed, and always ends.
C25_BoundedRetries ==
    /\ []RetryBounds
    /\ <>[](pc \in {"returned", "raised"})

\* five failed attempts, the last followed by the capped sleep, then a successful sixth
C25_CappedSleepWitness ==
    /\ pc = "returned"
    /\ call.max_retries = 6
    /\ Sleeps(log) = <<750, 1500, 3000, 6000, 8000>>

(***************************************************************************)
(* The calls cached_extract makes (SpecCache)                              *)
(***************************************************************************)
\* C26: on a miss cached_extract makes exactly one extract_acts_llm call and, only when it
\* succeeds, exactly one cache.set for the key, after which the same call is a hit; on the
\* hit it makes no extraction call and writes nothing; a failed extraction leaves the
\* cache as it was.
C26_NoRepeatExtraction ==
    /\ pc = "call1" => (log = <<>> /\ ~IsHit(cache, CacheKey(call)))
    /\ pc \in {"call2", "called"} =>
          /\ log = << [op |-> "extract_acts_llm"], [op |-> "set", key |-> CacheKey(call)] >>
          /\ IsHit(cache, CacheKey(call))
          /\ DOMAIN cache = {CacheKey(call)}
          /\ cache[CacheKey(call)].extracted = CacheValue(miss_ret).extracted
          /\ file = << ObjectLine(cache[CacheKey(call)]) >>
    /\ pc = "failed" =>
          /\ log = << [op |-> "extract_acts_llm"] >>
          /\ outcome = "RuntimeError"
          /\ cache = <<>>
          /\ file = <<>>

\* the second call has been served from the cache
C26_HitWitness ==
    /\ pc = "called"
    /\ Len(log) = 2
    /\ Len(file) = 1
    /\ Len(hit_ret.acts) = 2

(***************************************************************************)
(* Properties of JsonlCache (SpecJsonl)                                    *)
(***************************************************************************)
\* the set calls of the log, in order
SetsOf(l) ==
    LET IsSet(e) == e.op = "set"
    IN  SelectSeq(l, IsSet)

\* the file as it was before the first call: set appends one line per call
FileAtLoad == SubSeq(file, 1, Len(file) - Len(SetsOf(log)))

\* the record of the last line of lines that is an object with the key, <<>> for none
LastInFile(lines, key) ==
    IF \E i \in 1..Len(lines) : lines[i].line = "object" /\ "key" \in DOMAIN lines[i].obj
                                /\ lines[i].obj.key = key
    THEN << lines[CHOOSE i \in 1..Len(lines) :
                    /\ lines[i].line = "object" /\ "key" \in DOMAIN lines[i].obj
                    /\ lines[i].obj.key = key
                    /\ \A j \in (i + 1)..Len(lines) :
                          ~(lines[j].line = "object" /\ "key" \in DOMAIN lines[j].obj
                            /\ lines[j].obj.key = key)].obj >>
    ELSE <<>>

\* the record of the last set call of sets for the key, fromFile when there is none
LastSetOr(sets, key, fromFile) ==
    IF \E i \in 1..Len(sets) : sets[i].key = key
    THEN << [key |-> key] @@
            sets[CHOOSE i \in 1..Len(sets) :
                    /\ sets[i].key = key
                    /\ \A j \in (i + 1)..Len(sets) : sets[j].key # key].value >>
    ELSE fromFile

\* every line of lines is blank or a JSON object
AllParse(lines) == \A i \in 1..Len(lines) : lines[i].line \in {"blank", "object"}

\* the lines written by the set calls are the tail of the file, in call order
OnlyAppended(sets) ==
    \A i \in 1..Len(sets) :
        file[Len(file) - Len(sets) + i] = ObjectLine([key |-> sets[i].key] @@ sets[i].value)

\* the last call was a get
AfterGet == log # <<>> /\ log[Len(log)].op = "get"

\* C27 as stated: get(k) returns the record of the most recent set(k, v) on the object,
\* otherwise the last record for k in the file as it was at the load, otherwise None; set
\* only appends to the file.
C27_LastRecordInFile ==
    /\ OnlyAppended(SetsOf(log))
    /\ AfterGet =>
          hit_ret = LastSetOr(SetsOf(log), log[Len(log)].key,
                              LastInFile(FileAtLoad, log[Len(log)].key))

\* C27, amended: as stated when every line of the file at the load is blank or a JSON
\* object; when some line is not, the whole file is ignored and get(k) returns the record
\* of the most recent set(k, v), otherwise None.
C27_ReadYourWrites ==
    /\ OnlyAppended(SetsOf(log))
    /\ AfterGet =>
          hit_ret = LastSetOr(SetsOf(log), log[Len(log)].key,
                              IF AllParse(FileAtLoad)
                              THEN LastInFile(FileAtLoad, log[Len(log)].key)
                              ELSE <<>>)

\* two records for k1 in the file, a set for k2, then get(k1) gives the later file record
C27_LastWinsWitness ==
    /\ AfterGet
    /\ log[Len(log)].key = "k1"
    /\ Len(SetsOf(log)) = 1
    /\ FileAtLoad = << ObjectLine([key |-> "k1", extracted |-> "old"]),
                       ObjectLine([key |-> "k1", extracted |-> "older"]) >>
    /\ hit_ret = << [key |-> "k1", extracted |-> "older"] >>

(***************************************************************************)
(* Maximality of the matching (Spec)                                       *)
(***************************************************************************)
\* C28: in the final result no lost original act and added translated act have a
\* type-equivalence score greater than 0.
C28_Maximal ==
    (pc = "done" /\ result.status = "returned") =>
        \A i \in 1..Len(result.lost), j \in 1..Len(result.added) :
            _equiv_score(o_acts[result.lost[i]].act_type,
                         t_acts[result.added[j]].act_type) = 0

\* pass 2 matched a pair below the pass 1 threshold and left an unrelated pair unmatched
C28_Pass2Witness ==
    /\ pc = "done"
    /\ result.status = "returned"
    /\ n_pass1 = 0
    /\ Len(match.preserved) = 1
    /\ match.preserved[1][3] \in 1..94
    /\ Len(result.lost) = 1
    /\ Len(result.added) = 1

C30_SymmetricBounded ==
    pc = "scored" =>
        /\ norm = _equiv_score(raw.b, raw.a)
        /\ norm \in 0..100
        /\ norm = 100 <=> _normalize_act_type(raw.a) = _normalize_act_type(raw.b)
        /\ Pass1Threshold(norm) <=> _normalize_act_type(raw.a) = _normalize_act_type(raw.b)

\* two different labels with one normalized label score 1.0, in both orders
C30_SameNormalizedWitness ==
    /\ pc = "scored"
    /\ raw.a = "Promise"
    /\ raw.b = "VOW"
    /\ norm = 100
    /\ _equiv_score(raw.b, raw.a) = 100

====
